---- MODULE Spec2Model ----
(***************************************************************************)
(* A model of the chess engine player: the game session (src/src/game.rs,  *)
(* struct ChessGame) on top of a model of the move-legality library the    *)
(* session calls (the `chess` crate: Board, ChessMove, MoveGen, Game).     *)
(***************************************************************************)
EXTENDS Integers, Sequences, FiniteSets, TLC

(***************************************************************************)
(* Rust's Option<T>: None is the empty tuple, Some(x) the one-tuple.       *)
(***************************************************************************)
None == <<>>
Some(x) == <<x>>
IsSome(o) == o # <<>>
IsNone(o) == o = <<>>
Unwrap(o) == o[1]

(***************************************************************************)
(* The move-legality library: squares, pieces, colours.                    *)
(* A square is its index rank * 8 + file (a1 = 0, h1 = 7, a8 = 56).        *)
(***************************************************************************)
Squares == 0 .. 63
FileOf(s) == s % 8
RankOf(s) == s \div 8
make_square(rank, file) == rank * 8 + file
OnBoard(rank, file) == rank >= 0 /\ rank <= 7 /\ file >= 0 /\ file <= 7

White == "White"
Black == "Black"
Colors == {White, Black}
Opp(c) == IF c = White THEN Black ELSE White

\* Piece kinds, named by their letter; a piece on the board is the letter in
\* upper case (White) or lower case (Black), an empty square is ".".
Kinds == {"P", "N", "B", "R", "Q", "K"}
WhiteChars == {"P", "N", "B", "R", "Q", "K"}
BlackChars == {"p", "n", "b", "r", "q", "k"}
Empty == "."
BoardChars == WhiteChars \cup BlackChars \cup {Empty}

Upper == [c \in BoardChars |->
    CASE c = "p" -> "P" [] c = "n" -> "N" [] c = "b" -> "B"
      [] c = "r" -> "R" [] c = "q" -> "Q" [] c = "k" -> "K" [] OTHER -> c]
Lower == [c \in Kinds |->
    CASE c = "P" -> "p" [] c = "N" -> "n" [] c = "B" -> "b"
      [] c = "R" -> "r" [] c = "Q" -> "q" [] OTHER -> "k"]
ColorOfChar == [c \in BoardChars |->
    IF c \in WhiteChars THEN White ELSE IF c \in BlackChars THEN Black ELSE "-"]
PieceChar(kind, color) == IF color = White THEN kind ELSE Lower[kind]

\* Board::piece_on and Board::color_on
piece_on(board, s) ==
    IF board.pieces[s] = Empty THEN None ELSE Some(Upper[board.pieces[s]])
color_on(board, s) ==
    IF board.pieces[s] = Empty THEN None ELSE Some(ColorOfChar[board.pieces[s]])

\* ChessMove::new
ChessMove(from, to, promotion) ==
    [source |-> from, dest |-> to, promotion |-> promotion]

(***************************************************************************)
(* Attacks.  FirstOnRay is the first piece met from (rank, file) in the    *)
(* direction (dr, df), or Empty at the edge of the board.                  *)
(***************************************************************************)
KnightDeltas == {<<1, 2>>, <<2, 1>>, <<-1, 2>>, <<-2, 1>>,
                 <<1, -2>>, <<2, -1>>, <<-1, -2>>, <<-2, -1>>}
KingDeltas == {<<1, 0>>, <<-1, 0>>, <<0, 1>>, <<0, -1>>,
               <<1, 1>>, <<1, -1>>, <<-1, 1>>, <<-1, -1>>}
RookDirs == {<<1, 0>>, <<-1, 0>>, <<0, 1>>, <<0, -1>>}
BishopDirs == {<<1, 1>>, <<1, -1>>, <<-1, 1>>, <<-1, -1>>}

RECURSIVE FirstOnRay(_, _, _, _, _)
FirstOnRay(pieces, rank, file, dr, df) ==
    IF ~OnBoard(rank + dr, file + df) THEN Empty
    ELSE LET c == pieces[make_square(rank + dr, file + df)] IN
         IF c # Empty THEN c ELSE FirstOnRay(pieces, rank + dr, file + df, dr, df)

\* Whether a piece of colour `by` attacks square s.
Attacked(pieces, s, by) ==
    LET r == RankOf(s)
        f == FileOf(s)
        pr == IF by = White THEN r - 1 ELSE r + 1
    IN \/ \E d \in KnightDeltas :
            /\ OnBoard(r + d[1], f + d[2])
            /\ pieces[make_square(r + d[1], f + d[2])] = PieceChar("N", by)
       \/ \E d \in KingDeltas :
            /\ OnBoard(r + d[1], f + d[2])
            /\ pieces[make_square(r + d[1], f + d[2])] = PieceChar("K", by)
       \/ \E df \in {-1, 1} :
            /\ OnBoard(pr, f + df)
            /\ pieces[make_square(pr, f + df)] = PieceChar("P", by)
       \/ \E d \in RookDirs :
            FirstOnRay(pieces, r, f, d[1], d[2]) \in {PieceChar("R", by), PieceChar("Q", by)}
       \/ \E d \in BishopDirs :
            FirstOnRay(pieces, r, f, d[1], d[2]) \in {PieceChar("B", by), PieceChar("Q", by)}

\* Whether the king of `color` stands attacked (Board::checkers is non-empty
\* for the side to move).
InCheck(pieces, color) ==
    \E s \in Squares : pieces[s] = PieceChar("K", color) /\ Attacked(pieces, s, Opp(color))

(***************************************************************************)
(* Board::make_move_new: the position after a move.                        *)
(***************************************************************************)
CastleSquares == [right \in {"K", "Q", "k", "q"} |->
    CASE right = "K" -> {4, 7} [] right = "Q" -> {4, 0}
      [] right = "k" -> {60, 63} [] OTHER -> {60, 56}]

\* The squares after the move: the piece leaves its source and stands (as
\* the promotion piece, if any) on the destination; an en-passant capture
\* removes the pawn passed, castling moves the rook too.
PiecesAfter(board, m) ==
    LET src == m.source
        dst == m.dest
        c == board.pieces[src]
        kind == Upper[c]
        me == board.side_to_move
        placed == IF IsSome(m.promotion) THEN PieceChar(Unwrap(m.promotion), me) ELSE c
        plain == [board.pieces EXCEPT ![src] = Empty, ![dst] = placed]
    IN IF kind = "P" /\ board.en_passant = Some(dst) /\ FileOf(src) # FileOf(dst)
       THEN [plain EXCEPT ![make_square(RankOf(src), FileOf(dst))] = Empty]
       ELSE IF kind = "K" /\ FileOf(dst) - FileOf(src) = 2
       THEN [plain EXCEPT ![make_square(RankOf(src), 7)] = Empty,
                          ![make_square(RankOf(src), 5)] = PieceChar("R", me)]
       ELSE IF kind = "K" /\ FileOf(src) - FileOf(dst) = 2
       THEN [plain EXCEPT ![make_square(RankOf(src), 0)] = Empty,
                          ![make_square(RankOf(src), 3)] = PieceChar("R", me)]
       ELSE plain

make_move_new(board, m) ==
    LET src == m.source
        dst == m.dest
        me == board.side_to_move
        double == /\ Upper[board.pieces[src]] = "P"
                  /\ (RankOf(dst) - RankOf(src) = 2 \/ RankOf(src) - RankOf(dst) = 2)
        capturable == \E df \in {-1, 1} :
                        /\ OnBoard(RankOf(dst), FileOf(dst) + df)
                        /\ board.pieces[make_square(RankOf(dst), FileOf(dst) + df)]
                             = PieceChar("P", Opp(me))
    IN [pieces |-> PiecesAfter(board, m),
        side_to_move |-> Opp(me),
        castle |-> {right \in board.castle : src \notin CastleSquares[right]
                                             /\ dst \notin CastleSquares[right]},
        en_passant |-> IF double /\ capturable
                       THEN Some(make_square((RankOf(src) + RankOf(dst)) \div 2, FileOf(src)))
                       ELSE None]

(***************************************************************************)
(* MoveGen::new_legal: the legal moves of the side to move.                *)
(***************************************************************************)
PromotionOrder == <<"Q", "N", "R", "B">>

RECURSIVE Slide(_, _, _, _, _, _)
Slide(pieces, rank, file, dr, df, me) ==
    IF ~OnBoard(rank + dr, file + df) THEN {}
    ELSE LET t == make_square(rank + dr, file + df) IN
         IF pieces[t] = Empty THEN {t} \cup Slide(pieces, rank + dr, file + df, dr, df, me)
         ELSE IF ColorOfChar[pieces[t]] # me THEN {t}
         ELSE {}

StepTargets(pieces, s, deltas, me) ==
    {make_square(RankOf(s) + d[1], FileOf(s) + d[2]) :
        d \in {e \in deltas :
                 /\ OnBoard(RankOf(s) + e[1], FileOf(s) + e[2])
                 /\ ColorOfChar[pieces[make_square(RankOf(s) + e[1], FileOf(s) + e[2])]] # me}}

PawnTargets(board, s) ==
    LET me == board.side_to_move
        pieces == board.pieces
        r == RankOf(s)
        f == FileOf(s)
        dir == IF me = White THEN 1 ELSE -1
        home == IF me = White THEN 1 ELSE 6
        one == IF OnBoard(r + dir, f) /\ pieces[make_square(r + dir, f)] = Empty
               THEN {make_square(r + dir, f)} ELSE {}
        two == IF r = home /\ one # {} /\ pieces[make_square(r + 2 * dir, f)] = Empty
               THEN {make_square(r + 2 * dir, f)} ELSE {}
        takes == {make_square(r + dir, f + df) :
                    df \in {e \in {-1, 1} :
                              /\ OnBoard(r + dir, f + e)
                              /\ \/ ColorOfChar[pieces[make_square(r + dir, f + e)]] = Opp(me)
                                 \/ board.en_passant = Some(make_square(r + dir, f + e))}}
    IN one \cup two \cup takes

CastleTargets(board, s) ==
    LET me == board.side_to_move
        pieces == board.pieces
        r == IF me = White THEN 0 ELSE 7
        e == make_square(r, 4)
        free(files) == \A f \in files : pieces[make_square(r, f)] = Empty
        safe(files) == \A f \in files : ~Attacked(pieces, make_square(r, f), Opp(me))
    IN IF s # e THEN {}
       ELSE (IF PieceChar("K", me) \in board.castle /\ free({5, 6}) /\ safe({4, 5, 6})
                THEN {make_square(r, 6)} ELSE {})
            \cup
            (IF PieceChar("Q", me) \in board.castle /\ free({1, 2, 3}) /\ safe({4, 3, 2})
                THEN {make_square(r, 2)} ELSE {})

PseudoTargets(board, s) ==
    LET pieces == board.pieces
        me == board.side_to_move
        kind == Upper[pieces[s]]
        r == RankOf(s)
        f == FileOf(s)
        rays(dirs) == UNION {Slide(pieces, r, f, d[1], d[2], me) : d \in dirs}
    IN CASE kind = "P" -> PawnTargets(board, s)
         [] kind = "N" -> StepTargets(pieces, s, KnightDeltas, me)
         [] kind = "B" -> rays(BishopDirs)
         [] kind = "R" -> rays(RookDirs)
         [] kind = "Q" -> rays(RookDirs \cup BishopDirs)
         [] OTHER -> StepTargets(pieces, s, KingDeltas, me) \cup CastleTargets(board, s)

\* The moves from s to t: the four promotions for a pawn reaching the last
\* rank, else the one plain move.
MovesTo(board, s, t) ==
    IF /\ Upper[board.pieces[s]] = "P"
       /\ RankOf(t) = (IF board.side_to_move = White THEN 7 ELSE 0)
    THEN {ChessMove(s, t, Some(PromotionOrder[i])) : i \in 1 .. 4}
    ELSE {ChessMove(s, t, None)}

\* Whether the move leaves the mover's own king attacked; `kings` are the
\* squares of the mover's king before the move.
LeavesKingAttacked(board, m, kings) ==
    LET after == PiecesAfter(board, m)
        enemy == Opp(board.side_to_move)
    IN IF m.source \in kings THEN Attacked(after, m.dest, enemy)
       ELSE \E k \in kings : Attacked(after, k, enemy)

KingSquares(pieces, color) == {s \in Squares : pieces[s] = PieceChar("K", color)}

LegalFromWith(board, s, kings) ==
    UNION {MovesTo(board, s, t) :
             t \in {u \in PseudoTargets(board, s) :
                      ~LeavesKingAttacked(board, ChessMove(s, u, None), kings)}}

\* The moves MoveGen::new_legal yields whose source is s.
LegalFrom(board, s) ==
    IF ColorOfChar[board.pieces[s]] # board.side_to_move THEN {}
    ELSE LegalFromWith(board, s, KingSquares(board.pieces, board.side_to_move))

LegalMoves(board) ==
    LET own == {s \in Squares : ColorOfChar[board.pieces[s]] = board.side_to_move} IN
    UNION {LegalFromWith(board, s, KingSquares(board.pieces, board.side_to_move)) :
             s \in own}

\* The order in which MoveGen yields the moves: by piece kind, then source,
\* then destination, the promotions of one pawn move in PromotionOrder.
KindIndex == [k \in Kinds |->
    CASE k = "P" -> 0 [] k = "N" -> 1 [] k = "B" -> 2
      [] k = "R" -> 3 [] k = "Q" -> 4 [] OTHER -> 5]
PromotionIndex(p) ==
    IF IsNone(p) THEN 0
    ELSE CHOOSE i \in 1 .. 4 : PromotionOrder[i] = Unwrap(p)
MoveKey(board, m) ==
    ((KindIndex[Upper[board.pieces[m.source]]] * 64 + m.source) * 64 + m.dest) * 8
        + PromotionIndex(m.promotion)

RECURSIVE InOrder(_, _)
InOrder(board, moves) ==
    IF moves = {} THEN <<>>
    ELSE LET m == CHOOSE x \in moves :
                    \A y \in moves : MoveKey(board, x) <= MoveKey(board, y)
         IN <<m>> \o InOrder(board, moves \ {m})

MoveGen_new_legal(board) == InOrder(board, LegalMoves(board))

\* Board::legal
legal(board, m) == m \in LegalMoves(board)

(***************************************************************************)
(* Board::from_str: a position from its position string (FEN), given as    *)
(* the sequence of its characters.  The result is Some(board) or None (the *)
(* library's Err).                                                         *)
(***************************************************************************)
RECURSIVE SplitOn(_, _, _)
\* str.split(sep): the fields of text between occurrences of sep; `field`
\* is the field being read.
SplitOn(text, sep, field) ==
    IF text = <<>> THEN <<field>>
    ELSE IF Head(text) = sep THEN <<field>> \o SplitOn(Tail(text), sep, <<>>)
    ELSE SplitOn(Tail(text), sep, Append(field, Head(text)))

DigitValue == [c \in {"1", "2", "3", "4", "5", "6", "7", "8"} |->
    CASE c = "1" -> 1 [] c = "2" -> 2 [] c = "3" -> 3 [] c = "4" -> 4
      [] c = "5" -> 5 [] c = "6" -> 6 [] c = "7" -> 7 [] OTHER -> 8]
FileLetters == <<"a", "b", "c", "d", "e", "f", "g", "h">>
RankDigits == <<"1", "2", "3", "4", "5", "6", "7", "8">>

EmptyPieces == [s \in Squares |-> Empty]

RECURSIVE Placement(_, _, _, _)
\* The walk over the piece-placement field: '/' steps one rank down to file
\* a, a digit skips files, a piece letter is placed and steps one file right
\* (rank and file indices wrap modulo 8, as Rank::down and File::right do).
\* None for any other character.
Placement(text, rank, file, pieces) ==
    IF text = <<>> THEN Some(pieces)
    ELSE LET c == Head(text) IN
         IF c = "/" THEN Placement(Tail(text), (rank + 7) % 8, 0, pieces)
         ELSE IF c \in DOMAIN DigitValue
              THEN Placement(Tail(text), rank, (file + DigitValue[c]) % 8, pieces)
         ELSE IF c \in WhiteChars \cup BlackChars
              THEN Placement(Tail(text), rank, (file + 1) % 8,
                             [pieces EXCEPT ![make_square(rank, file)] = c])
         ELSE None

\* Board::is_sane, as far as the session depends on it: one king a side, the
\* side that has just moved not in check, castling rights only with king and
\* rook at home.
is_sane(board) ==
    /\ \A k \in {"K", "k"} : Cardinality({s \in Squares : board.pieces[s] = k}) = 1
    /\ ~InCheck(board.pieces, Opp(board.side_to_move))
    /\ \A right \in board.castle :
         /\ board.pieces[IF right \in {"K", "Q"} THEN 4 ELSE 60]
              = (IF right \in {"K", "Q"} THEN "K" ELSE "k")
         /\ \E s \in CastleSquares[right] :
              board.pieces[s] = (IF right \in {"K", "Q"} THEN "R" ELSE "r")

Board_from_str(fen) ==
    LET tokens == SplitOn(fen, " ", <<>>) IN
    IF Len(tokens) < 4 THEN None
    ELSE LET placed == Placement(tokens[1], 7, 0, EmptyPieces)
             side == tokens[2]
             castles == tokens[3]
             ep == tokens[4]
             has(c) == \E i \in 1 .. Len(castles) : castles[i] = c
             epSquare == IF /\ Len(ep) = 2
                            /\ \E i \in 1 .. 8 : FileLetters[i] = ep[1]
                            /\ \E i \in 1 .. 8 : RankDigits[i] = ep[2]
                         THEN Some(make_square(
                                  (CHOOSE i \in 1 .. 8 : RankDigits[i] = ep[2]) - 1,
                                  (CHOOSE i \in 1 .. 8 : FileLetters[i] = ep[1]) - 1))
                         ELSE None
         IN IF IsNone(placed) \/ side \notin {<<"w">>, <<"W">>, <<"b">>, <<"B">>}
            THEN None
            ELSE LET board == [pieces |-> Unwrap(placed),
                               side_to_move |-> IF side \in {<<"w">>, <<"W">>}
                                                THEN White ELSE Black,
                               castle |-> {c \in {"K", "Q", "k", "q"} : has(c)},
                               en_passant |-> epSquare]
                 IN IF is_sane(board) THEN Some(board) ELSE None

\* Board::default(): the standard starting position,
\* "rnbqkbnr/pppppppp/8/8/8/8/PPPPPPPP/RNBQKBNR w KQkq - 0 1".
StartFen ==
    <<"r", "n", "b", "q", "k", "b", "n", "r", "/",
      "p", "p", "p", "p", "p", "p", "p", "p", "/",
      "8", "/", "8", "/", "8", "/", "8", "/",
      "P", "P", "P", "P", "P", "P", "P", "P", "/",
      "R", "N", "B", "Q", "K", "B", "N", "R", " ",
      "w", " ", "K", "Q", "k", "q", " ", "-", " ", "0", " ", "1">>
Board_default == Unwrap(Board_from_str(StartFen))

\* Game::make_move: the position after the move, or None (the library's
\* `false`) when the move is not legal in the current position or the game
\* is over (a finished game has no legal move).
Game_make_move(board, m) ==
    IF m \in LegalFrom(board, m.source) THEN Some(make_move_new(board, m)) ELSE None

(***************************************************************************)
(* Text.  A string is the sequence of its pieces of text: single           *)
(* characters where the program looks at characters.                       *)
(***************************************************************************)
FileChar(s) == FileLetters[FileOf(s) + 1]
RankChar(s) == RankDigits[RankOf(s) + 1]
SquareText(s) == <<FileChar(s), RankChar(s)>>
\* Display of a ChessMove: source, destination, promotion piece in lower case.
MoveText(m) ==
    SquareText(m.source) \o SquareText(m.dest)
        \o (IF IsSome(m.promotion) THEN <<Lower[Unwrap(m.promotion)]>> ELSE <<>>)

(***************************************************************************)
(* The notation generator: ChessGame::move_to_details.                     *)
(***************************************************************************)
\* A piece letter that is written for pawns too.
PieceLetter_for_pawns_too(piece) == <<piece>>

PieceLetter(piece) == IF piece = "P" THEN <<>> ELSE <<piece>>

\* The moves of the other pieces of the mover's kind and colour that legally
\* reach the move's destination.
same_piece_moves(chess_move, board, piece) ==
    {m \in UNION {LegalFrom(board, s) :
                     s \in {t \in Squares :
                              /\ t # chess_move.source
                              /\ piece_on(board, t) = Some(piece)
                              /\ color_on(board, t) = Some(board.side_to_move)}} :
         m.dest = chess_move.dest}

\* A disambiguation that tries the rank before the file.
Disambiguation_rank_first(chess_move, board, piece) ==
    LET others == same_piece_moves(chess_move, board, piece)
        file_unique == \A m \in others : FileOf(m.source) # FileOf(chess_move.source)
        rank_unique == \A m \in others : RankOf(m.source) # RankOf(chess_move.source)
    IN IF piece \in {"P", "K"} \/ others = {} THEN <<>>
       ELSE IF rank_unique THEN <<RankChar(chess_move.source)>>
       ELSE IF file_unique THEN <<FileChar(chess_move.source)>>
       ELSE <<FileChar(chess_move.source), RankChar(chess_move.source)>>

\* The disambiguation text of move_to_details: nothing for pawns and kings
\* and when no other piece of the kind reaches the destination, else the
\* source file if no other piece stands on it, else the source rank if no
\* other piece stands on it, else both.
Disambiguation(chess_move, board, piece) ==
    LET others == same_piece_moves(chess_move, board, piece)
        file_unique == \A m \in others : FileOf(m.source) # FileOf(chess_move.source)
        rank_unique == \A m \in others : RankOf(m.source) # RankOf(chess_move.source)
    IN IF piece \in {"P", "K"} \/ others = {} THEN <<>>
       ELSE IF file_unique THEN <<FileChar(chess_move.source)>>
       ELSE IF rank_unique THEN <<RankChar(chess_move.source)>>
       ELSE <<FileChar(chess_move.source), RankChar(chess_move.source)>>

\* A castling test that knows the king side only.
castling_text_king_side_only(chess_move, piece) ==
    IF piece = "K" /\ FileOf(chess_move.source) = 4 /\ FileOf(chess_move.dest) = 6
    THEN <<"O-O">>
    ELSE <<>>

\* The castling branch of move_to_details: the text of a king's move from
\* file index 4 to file index 6 or 2, None (the empty text) for any other
\* move.
castling_text(chess_move, piece) ==
    IF piece = "K" /\ FileOf(chess_move.source) = 4 /\ FileOf(chess_move.dest) = 6
    THEN <<"O-O">>
    ELSE IF piece = "K" /\ FileOf(chess_move.source) = 4 /\ FileOf(chess_move.dest) = 2
    THEN <<"O-O-O">>
    ELSE <<>>

move_to_details(chess_move, board) ==
    LET src == chess_move.source
        dst == chess_move.dest
        from_file == FileChar(src)
        from_rank == RankChar(src)
        to_file == FileChar(dst)
        to_rank == RankChar(dst)
    IN IF IsNone(piece_on(board, src))
       THEN [notation |-> MoveText(chess_move),
             piece |-> "P",
             destination |-> <<to_file, to_rank>>,
             is_capture |-> FALSE,
             display_text |-> <<to_file, to_rank>>]
       ELSE
       LET piece == Unwrap(piece_on(board, src)) IN
       IF IsSome(castling_text(chess_move, piece))
       THEN [notation |-> castling_text(chess_move, piece),
             piece |-> piece,
             destination |-> castling_text(chess_move, piece),
             is_capture |-> FALSE,
             display_text |-> castling_text(chess_move, piece)]
       ELSE
       LET is_capture == IsSome(piece_on(board, dst))
           capture_symbol == IF is_capture THEN <<"x">> ELSE <<>>
           destination == IF piece = "P" /\ is_capture
                          THEN <<from_file, "x", to_file, to_rank>>
                          ELSE capture_symbol \o <<to_file, to_rank>>
           piece_char == PieceLetter(piece)
           disambiguation == Disambiguation(chess_move, board, piece)
           promotion == IF IsSome(chess_move.promotion)
                        THEN <<"=", Unwrap(chess_move.promotion)>>
                        ELSE <<>>
           display_destination == IF piece = "P" /\ is_capture
                                  THEN <<"x", to_file, to_rank>>
                                  ELSE destination
           new_board == make_move_new(board, chess_move)
           suffix == IF InCheck(new_board.pieces, new_board.side_to_move)
                     THEN (IF LegalMoves(new_board) = {} THEN <<"#">> ELSE <<"+">>)
                     ELSE <<>>
       IN [notation |-> piece_char \o disambiguation \o destination \o promotion \o suffix,
           piece |-> piece,
           destination |-> destination,
           is_capture |-> is_capture,
           display_text |-> disambiguation \o display_destination \o promotion \o suffix]

(***************************************************************************)
(* The game session: struct ChessGame and its methods.  A method is an     *)
(* operator from the struct (`self`) and the arguments to the struct after *)
(* the call; the methods that return a value give [self, ret].             *)
(***************************************************************************)
Text(t) == <<t>>

ChessGame_new ==
    [game |-> Board_default,
     selected_square |-> None,
     possible_moves |-> <<>>,
     message |-> Text("Welcome to Chess Engine Player! Make a move to begin."),
     thinking |-> FALSE,
     player_color |-> White,
     move_history |-> <<>>,
     position_history |-> <<Board_default>>,
     move_records |-> <<>>,
     view_mode |-> FALSE,
     view_move_index |-> 0,
     pending_promotion |-> None]

reset(self) ==
    [self EXCEPT
        !.game = Board_default,
        !.selected_square = None,
        !.possible_moves = <<>>,
        !.message = Text("Game reset. Make a move to begin."),
        !.thinking = FALSE,
        !.move_history = <<>>,
        !.position_history = <<Board_default>>,
        !.move_records = <<>>,
        !.view_mode = FALSE,
        !.view_move_index = 0,
        !.pending_promotion = None]

\* A load that keeps the human's colour.
reset_from_fen_keeping_color(self, fen, player_color) ==
    LET parsed == Board_from_str(fen) IN
    IF IsSome(parsed)
    THEN [reset(self) EXCEPT
            !.game = Unwrap(parsed),
            !.position_history = <<Unwrap(parsed)>>,
            !.message = Text("Custom position loaded. Make a move to begin.")]
    ELSE self

reset_from_fen(self, fen, player_color) ==
    LET parsed == Board_from_str(fen) IN
    IF IsSome(parsed)
    THEN [self EXCEPT
            !.game = Unwrap(parsed),
            !.player_color = player_color,
            !.selected_square = None,
            !.possible_moves = <<>>,
            !.message = Text("Custom position loaded. Make a move to begin."),
            !.thinking = FALSE,
            !.move_history = <<>>,
            !.position_history = <<Unwrap(parsed)>>,
            !.move_records = <<>>,
            !.view_mode = FALSE,
            !.view_move_index = 0,
            !.pending_promotion = None]
    ELSE self

\* usize::saturating_sub(1)
SaturatingPred(n) == IF n = 0 THEN 0 ELSE n - 1

\* Vec indices start at 0, sequence indices at 1.
current_position(self) ==
    IF self.view_mode THEN self.position_history[self.view_move_index + 1]
    ELSE self.game

set_view_mode(self, enabled) ==
    IF enabled THEN [self EXCEPT !.view_mode = TRUE]
    ELSE [self EXCEPT !.view_mode = FALSE,
                      !.view_move_index = SaturatingPred(Len(self.position_history))]

\* A view_move_at that also takes the index one past the last position.
view_move_at_through_len(self, index) ==
    IF index <= Len(self.position_history)
    THEN [self EXCEPT !.view_move_index = index,
                      !.view_mode = TRUE,
                      !.selected_square = None,
                      !.possible_moves = <<>>]
    ELSE self

view_move_at(self, index) ==
    IF index < Len(self.position_history)
    THEN [self EXCEPT !.view_move_index = index,
                      !.view_mode = TRUE,
                      !.selected_square = None,
                      !.possible_moves = <<>>]
    ELSE self

ColorName(color) == IF color = White THEN "White" ELSE "Black"

set_player_color(self, color) ==
    [self EXCEPT !.player_color = color,
                 !.message = <<"You are playing as ", ColorName(color), ".">>]

\* A flip_side that also leaves view mode.
flip_side_leaving_view_mode(self) ==
    LET flipped == IF self.player_color = White THEN Black ELSE White IN
    [self EXCEPT !.player_color = flipped,
                 !.message = <<"You are playing as ", ColorName(flipped), ".">>,
                 !.view_mode = FALSE]


flip_side(self) ==
    LET flipped == IF self.player_color = White THEN Black ELSE White IN
    [self EXCEPT !.player_color = flipped,
                 !.message = <<"You are playing as ", ColorName(flipped), ".">>]

set_thinking(self, thinking) ==
    IF thinking
    THEN [self EXCEPT !.thinking = TRUE, !.message = Text("Engine is thinking...")]
    ELSE [self EXCEPT !.thinking = FALSE]

\* The moves of MoveGen::new_legal whose source is the selected square, in
\* the order MoveGen yields them.
update_possible_moves(self) ==
    IF IsSome(self.selected_square)
    THEN [self EXCEPT !.possible_moves =
            InOrder(self.game, LegalFrom(self.game, Unwrap(self.selected_square)))]
    ELSE [self EXCEPT !.possible_moves = <<>>]

is_pawn_promotion_move(chess_move, board) ==
    /\ piece_on(board, chess_move.source) = Some("P")
    /\ \/ board.side_to_move = White /\ RankOf(chess_move.dest) = 7
       \/ board.side_to_move = Black /\ RankOf(chess_move.dest) = 0

\* A record_move that numbers a record by the records before it.
record_move_numbered_from_zero(move_records, details, side) ==
    IF side = Black
    THEN Append(move_records, [move_num |-> Len(move_records),
                               white_move |-> Some(details),
                               black_move |-> None])
    ELSE IF move_records # <<>>
    THEN [move_records EXCEPT ![Len(move_records)].black_move = Some(details)]
    ELSE move_records

\* `side` is the side to move after the move (self.game.side_to_move() at
\* the time record_move runs).
record_move(move_records, details, side) ==
    IF side = Black
    THEN Append(move_records, [move_num |-> Len(move_records) + 1,
                               white_move |-> Some(details),
                               black_move |-> None])
    ELSE IF move_records # <<>>
    THEN [move_records EXCEPT ![Len(move_records)].black_move = Some(details)]
    ELSE move_records

\* The first move of possible_moves to the square (Iterator::find).
FindDest(possible_moves, square) ==
    LET hits == {i \in 1 .. Len(possible_moves) : possible_moves[i].dest = square} IN
    IF hits = {} THEN None
    ELSE Some(possible_moves[CHOOSE i \in hits : \A j \in hits : i <= j])

\* A fresh selection attempt on the square; `clear` says whether a square
\* that cannot be selected clears the selection (it does when a square was
\* selected before).
SelectOwnPiece(self, square, clear) ==
    IF /\ IsSome(piece_on(self.game, square))
       /\ color_on(self.game, square) = Some(self.game.side_to_move)
    THEN update_possible_moves([self EXCEPT !.selected_square = Some(square)])
    ELSE IF clear
    THEN [self EXCEPT !.selected_square = None, !.possible_moves = <<>>]
    ELSE self

\* select_square past its two early returns: a move to the square when a
\* square is selected and the square is one of its destinations, a
\* selection otherwise.
SelectOrMove(self, square) ==
    LET board == self.game IN
    IF IsSome(self.selected_square)
    THEN LET possible_move == FindDest(self.possible_moves, square) IN
         IF IsSome(possible_move)
         THEN LET chess_move == Unwrap(possible_move)
                  needs_promotion == \/ IsSome(chess_move.promotion)
                                     \/ is_pawn_promotion_move(chess_move, board)
              IN IF needs_promotion
                 THEN [self |-> [self EXCEPT
                                   !.pending_promotion =
                                       Some(<<chess_move.source, chess_move.dest>>),
                                   !.message = Text("Select promotion piece")],
                       ret |-> "true"]
                 ELSE LET details == move_to_details(chess_move, board)
                          made == Game_make_move(board, chess_move)
                      IN IF IsSome(made)
                         THEN [self |-> [self EXCEPT
                                 !.game = Unwrap(made),
                                 !.position_history = Append(@, Unwrap(made)),
                                 !.move_records =
                                     record_move(@, details, Unwrap(made).side_to_move),
                                 !.message = <<"Move: ">> \o MoveText(chess_move),
                                 !.selected_square = None,
                                 !.possible_moves = <<>>,
                                 !.move_history = Append(@, chess_move),
                                 !.view_move_index = Len(self.position_history)],
                               ret |-> "true"]
                         ELSE [self |-> self, ret |-> "false"]
         ELSE [self |-> SelectOwnPiece(self, square, TRUE), ret |-> "false"]
    ELSE [self |-> SelectOwnPiece(self, square, FALSE), ret |-> "false"]

\* A select_square that lacks the view-mode return.
select_square_in_view_mode(self, square) ==
    IF self.game.side_to_move # self.player_color
    THEN [self |-> self, ret |-> "false"]
    ELSE SelectOrMove(self, square)

\* A select_square that lacks the turn return.
select_square_on_any_turn(self, square) ==
    IF self.view_mode
    THEN [self |-> self, ret |-> "false"]
    ELSE SelectOrMove(self, square)

select_square(self, square) ==
    IF self.game.side_to_move # self.player_color
    THEN [self |-> self, ret |-> "false"]
    ELSE IF self.view_mode
    THEN [self |-> self, ret |-> "false"]
    ELSE SelectOrMove(self, square)

\* PromotionPiece -> Piece
PromotionPieces == {"Queen", "Rook", "Bishop", "Knight"}
PromotionKind(promotion_piece) ==
    CASE promotion_piece = "Queen" -> "Q"
      [] promotion_piece = "Rook" -> "R"
      [] promotion_piece = "Bishop" -> "B"
      [] OTHER -> "N"

promote_pawn(self, promotion_piece) ==
    IF IsSome(self.pending_promotion)
    THEN LET from == Unwrap(self.pending_promotion)[1]
             to == Unwrap(self.pending_promotion)[2]
             chess_move == ChessMove(from, to, Some(PromotionKind(promotion_piece)))
             board == self.game
             details == move_to_details(chess_move, board)
             made == Game_make_move(board, chess_move)
             taken == [self EXCEPT !.pending_promotion = None]
         IN IF IsSome(made)
            THEN [self |-> [taken EXCEPT
                    !.game = Unwrap(made),
                    !.position_history = Append(@, Unwrap(made)),
                    !.move_records = record_move(@, details, Unwrap(made).side_to_move),
                    !.message = <<"Move: ">> \o MoveText(chess_move),
                    !.selected_square = None,
                    !.possible_moves = <<>>,
                    !.move_history = Append(@, chess_move),
                    !.view_move_index = Len(self.position_history)],
                  ret |-> "true"]
            ELSE [self |-> taken, ret |-> "false"]
    ELSE [self |-> self, ret |-> "false"]

(***************************************************************************)
(* Characters of a move string.  A String is the sequence of its chars;    *)
(* CodePoint gives a char's Unicode scalar value.  The chars beyond ASCII  *)
(* are named by their code point.                                          *)
(***************************************************************************)
CodePoint ==
    [c \in {"a", "b", "c", "d", "e", "f", "g", "h"} |->
        96 + (CHOOSE i \in 1 .. 8 : FileLetters[i] = c)]
    @@ [c \in {"1", "2", "3", "4", "5", "6", "7", "8"} |-> 48 + DigitValue[c]]
    @@ [c \in {"0", "9", "A", "i", "n", "q", "r", "x", "U+0165", "U+0134"} |->
        CASE c = "0" -> 48 [] c = "9" -> 57 [] c = "A" -> 65 [] c = "i" -> 105
          [] c = "n" -> 110 [] c = "q" -> 113 [] c = "r" -> 114 [] c = "x" -> 120
          [] c = "U+0165" -> 357 [] OTHER -> 308]

\* char::len_utf8
len_utf8(c) ==
    IF CodePoint[c] < 128 THEN 1
    ELSE IF CodePoint[c] < 2048 THEN 2
    ELSE IF CodePoint[c] < 65536 THEN 3
    ELSE 4

RECURSIVE str_len(_)
\* str::len: the length in bytes.
str_len(text) == IF text = <<>> THEN 0 ELSE len_utf8(Head(text)) + str_len(Tail(text))

\* chars().nth(n): None past the last char.
chars_nth(text, n) == IF n < Len(text) THEN Some(text[n + 1]) ELSE None

\* `c as u8`: the cast keeps the low eight bits of the scalar value.
as_u8(c) == CodePoint[c] % 256

\* u8 subtraction: the difference modulo 2^8, and whether it overflowed.
u8_sub(x, y) == [value |-> (x - y + 256) % 256, overflow |-> x < y]

Byte_a == 97
Byte_1 == 49

\* The promotion piece a fifth character names.
PromotionOfChar(c) ==
    CASE c = "q" -> Some("Q")
      [] c = "r" -> Some("R")
      [] c = "b" -> Some("B")
      [] c = "n" -> Some("N")
      [] OTHER -> None

\* overflow_checks: whether the build checks integer overflow (a debug
\* build panics on x - y with x < y, a release build wraps).
make_engine_move(self, uci_move, overflow_checks) ==
    IF str_len(uci_move) < 4 THEN [self |-> self, ret |-> "false"]
    ELSE IF Len(uci_move) < 4 THEN [self |-> self, ret |-> "panic"]
    ELSE
    LET from_file == u8_sub(as_u8(uci_move[1]), Byte_a)
        from_rank == u8_sub(as_u8(uci_move[2]), Byte_1)
        to_file == u8_sub(as_u8(uci_move[3]), Byte_a)
        to_rank == u8_sub(as_u8(uci_move[4]), Byte_1)
    IN
    IF overflow_checks /\ (from_file.overflow \/ from_rank.overflow
                           \/ to_file.overflow \/ to_rank.overflow)
    THEN [self |-> self, ret |-> "panic"]
    ELSE IF from_file.value >= 8 \/ from_rank.value >= 8
            \/ to_file.value >= 8 \/ to_rank.value >= 8
    THEN [self |-> self, ret |-> "false"]
    ELSE
    LET from_square == make_square(from_rank.value, from_file.value)
        to_square == make_square(to_rank.value, to_file.value)
        board == self.game
        candidates == {m \in LegalFrom(board, from_square) : m.dest = to_square}
    IN
    IF candidates = {} THEN [self |-> self, ret |-> "false"]
    ELSE IF str_len(uci_move) >= 5 /\ IsNone(chars_nth(uci_move, 4))
    THEN [self |-> self, ret |-> "panic"]
    ELSE
    LET promotion == IF str_len(uci_move) >= 5
                     THEN PromotionOfChar(Unwrap(chars_nth(uci_move, 4)))
                     ELSE None
        matching == InOrder(board, {m \in candidates :
                                       IsNone(promotion) \/ m.promotion = promotion})
    IN
    IF matching = <<>> THEN [self |-> self, ret |-> "false"]
    ELSE
    LET m == Head(matching)
        details == move_to_details(m, board)
        made == Unwrap(Game_make_move(board, m))
    IN [self |-> [self EXCEPT
                    !.game = made,
                    !.position_history = Append(@, made),
                    !.move_records = record_move(@, details, made.side_to_move),
                    !.message = <<"Engine moved: ">> \o uci_move,
                    !.thinking = FALSE,
                    !.move_history = Append(@, m),
                    !.view_move_index = Len(self.position_history)],
        ret |-> "true"]

\* Vec::pop
Pop(vec) == IF vec = <<>> THEN <<>> ELSE SubSeq(vec, 1, Len(vec) - 1)
Last(vec) == vec[Len(vec)]

\* A restore that leaves the selection and its destinations in place.
RestoreLast_keeping_selection(self) ==
    [self EXCEPT
        !.game = Last(self.position_history),
        !.view_move_index = SaturatingPred(Len(self.position_history))]

\* A restore that leaves view_move_index where it was.
RestoreLast_keeping_view_index(self) ==
    [self EXCEPT
        !.game = Last(self.position_history),
        !.selected_square = None,
        !.possible_moves = <<>>]

\* A restore that leaves the live game where it was.
RestoreLast_keeping_game(self) ==
    [self EXCEPT
        !.selected_square = None,
        !.possible_moves = <<>>,
        !.view_move_index = SaturatingPred(Len(self.position_history))]

\* The tail of undo_move_pair, after the histories were trimmed.
RestoreLast(self) ==
    [self EXCEPT
        !.game = Last(self.position_history),
        !.selected_square = None,
        !.possible_moves = <<>>,
        !.view_move_index = SaturatingPred(Len(self.position_history))]

\* An undo that removes one ply whether or not the engine is thinking.
undo_one_ply(self) ==
    IF Len(self.move_history) >= 1 /\ Len(self.position_history) >= 2
    THEN RestoreLast([self EXCEPT
           !.move_history = Pop(@),
           !.position_history = Pop(@),
           !.move_records = Pop(@),
           !.thinking = FALSE,
           !.message = IF self.thinking THEN Text("Undid your move.")
                       ELSE Text("Undid last move.")])
    ELSE [self EXCEPT !.message = Text("No moves to undo.")]

\* An undo that removes a move and leaves its position in the log.
undo_keeping_position(self) ==
    IF Len(self.move_history) >= 1 /\ Len(self.position_history) >= 2
    THEN RestoreLast([self EXCEPT
           !.move_history = Pop(@),
           !.move_records = Pop(@),
           !.thinking = FALSE,
           !.message = Text("Undid last move.")])
    ELSE [self EXCEPT !.message = Text("No moves to undo.")]

\* An undo that clears the thinking flag before it looks at the history.
undo_clearing_thinking(self) ==
    IF Len(self.move_history) >= 1 /\ Len(self.position_history) >= 2
    THEN undo_one_ply(self)
    ELSE [self EXCEPT !.thinking = FALSE, !.message = Text("No moves to undo.")]

undo_move_pair(self) ==
    IF self.thinking
    THEN IF Len(self.move_history) >= 1 /\ Len(self.position_history) >= 2
         THEN RestoreLast([self EXCEPT
                !.move_history = Pop(@),
                !.position_history = Pop(@),
                !.move_records = Pop(@),
                !.thinking = FALSE,
                !.message = Text("Undid your move.")])
         ELSE [self EXCEPT !.message = Text("No moves to undo.")]
    ELSE IF Len(self.move_history) >= 2 /\ Len(self.position_history) >= 3
         THEN RestoreLast([self EXCEPT
                !.move_history = Pop(Pop(@)),
                !.position_history = Pop(Pop(@)),
                !.move_records = Pop(@),
                !.message = Text("Undid last move pair.")])
         ELSE IF Len(self.move_history) >= 1 /\ Len(self.position_history) >= 2
         THEN RestoreLast([self EXCEPT
                !.move_history = Pop(@),
                !.position_history = Pop(@),
                !.move_records = Pop(@),
                !.message = Text("Undid last move.")])
         ELSE [self EXCEPT !.message = Text("No moves to undo.")]

(***************************************************************************)
(* ChessApp: the handlers of ChessApp::update that act on the game.  A     *)
(* handler takes the game and the app's engine_thinking flag and gives the *)
(* two back, with `asked`: whether it sends the engine a position to       *)
(* search (ChessEngine::get_move).                                         *)
(***************************************************************************)
\* Game::result: the game is over when the side to move has no legal move.
game_result(self) ==
    IF LegalMoves(self.game) # {} THEN None
    ELSE IF ~InCheck(self.game.pieces, self.game.side_to_move) THEN Some("Stalemate")
    ELSE IF self.game.side_to_move = White THEN Some("BlackCheckmates")
    ELSE Some("WhiteCheckmates")

\* The tail shared by the handlers that made a move: ask the engine unless
\* the game is over.
AskEngine(game, engine_thinking) ==
    IF IsNone(game_result(game))
    THEN [game |-> set_thinking(game, TRUE), engine_thinking |-> TRUE, asked |-> TRUE]
    ELSE [game |-> game, engine_thinking |-> engine_thinking, asked |-> FALSE]

\* A SquareClicked handler that asks the engine while a promotion is pending.
SquareClicked_asking_at_once(game, engine_thinking, square) ==
    LET out == select_square(game, square) IN
    IF out.ret = "true" THEN AskEngine(out.self, engine_thinking)
    ELSE [game |-> out.self, engine_thinking |-> engine_thinking, asked |-> FALSE]

\* Message::SquareClicked
SquareClicked(game, engine_thinking, square) ==
    LET out == select_square(game, square) IN
    IF out.ret = "true"
    THEN IF IsSome(out.self.pending_promotion)
         THEN [game |-> out.self, engine_thinking |-> engine_thinking, asked |-> FALSE]
         ELSE AskEngine(out.self, engine_thinking)
    ELSE [game |-> out.self, engine_thinking |-> engine_thinking, asked |-> FALSE]

\* Message::PromotePawn; `out` is what the one call of promote_pawn gives back.
PromotePawnChosen(game, engine_thinking, promotion_piece) ==
    CHOOSE handled \in
        {IF out.ret = "true" THEN AskEngine(out.self, engine_thinking)
         ELSE [game |-> out.self, engine_thinking |-> engine_thinking, asked |-> FALSE] :
            out \in {promote_pawn(game, promotion_piece)}} : TRUE

\* The tail shared by ResetGame, UndoMove and FlipSide: ask the engine when
\* the side to move is not the human's.
AskIfEnginesTurn(game, engine_thinking) ==
    IF current_position(game).side_to_move # game.player_color
    THEN [game |-> set_thinking(game, TRUE), engine_thinking |-> TRUE, asked |-> TRUE]
    ELSE [game |-> game, engine_thinking |-> engine_thinking, asked |-> FALSE]

\* Message::ResetGame: the engine is asked when the human plays Black.
ResetGame(game, engine_thinking) ==
    IF reset(game).player_color = Black
    THEN [game |-> set_thinking(reset(game), TRUE), engine_thinking |-> TRUE,
          asked |-> TRUE]
    ELSE [game |-> reset(game), engine_thinking |-> engine_thinking, asked |-> FALSE]

\* Message::UndoMove
UndoMove(game, engine_thinking) ==
    AskIfEnginesTurn(undo_move_pair(game), engine_thinking)

\* Message::FlipSide
FlipSidePressed(game, engine_thinking) ==
    AskIfEnginesTurn(flip_side(game), engine_thinking)


(***************************************************************************)
(* The position editor (src/src/main.rs, struct SetupState).  The screen   *)
(* of the application is None on the game screen and Some(setup state) on  *)
(* the editor; `pieces` is the editor's map of occupied squares, written   *)
(* as the board's function from squares to piece letters.                  *)
(***************************************************************************)
\* str::split_whitespace: the non-empty fields between blanks.
split_whitespace(text) ==
    SelectSeq(SplitOn(text, " ", <<>>), LAMBDA field : field # <<>>)

\* str::contains(char)
contains(text, c) == \E i \in 1 .. Len(text) : text[i] = c

\* The parts of a position string that safe_parse_board turns away before
\* the library sees them; None when it finds nothing.
StringCheck(fen) ==
    LET fields == split_whitespace(fen)
        placement == IF fields = <<>> THEN <<>> ELSE fields[1]
        ranks == SplitOn(placement, "/", <<>>)
    IN IF ~contains(placement, "K") THEN Some("Missing white king (K)")
       ELSE IF ~contains(placement, "k") THEN Some("Missing black king (k)")
       ELSE IF Len(ranks) = 8 /\ (contains(ranks[1], "P") \/ contains(ranks[1], "p"))
            THEN Some("Pawns cannot be on rank 8")
       ELSE IF Len(ranks) = 8 /\ (contains(ranks[8], "P") \/ contains(ranks[8], "p"))
            THEN Some("Pawns cannot be on rank 1")
       ELSE None

\* safe_parse_board: Ok(board) is [board |-> Some(board), error |-> None],
\* Err(e) is [board |-> None, error |-> Some(e)]; the library's error is
\* shown by its Debug text.
safe_parse_board(fen) ==
    IF IsSome(StringCheck(fen))
    THEN [board |-> None, error |-> StringCheck(fen)]
    ELSE IF IsNone(Board_from_str(fen))
    THEN [board |-> None, error |-> Some("chess::Error")]
    ELSE [board |-> Board_from_str(fen), error |-> None]

DigitChar == [n \in 1 .. 8 |-> RankDigits[n]]

RECURSIVE RankText(_, _, _, _)
\* One rank of the piece-placement field from file `file` on, after `empty`
\* empty squares.
RankText(pieces, rank, file, empty) ==
    IF file = 8 THEN (IF empty > 0 THEN <<DigitChar[empty]>> ELSE <<>>)
    ELSE LET c == pieces[make_square(rank, file)] IN
         IF c # Empty
         THEN (IF empty > 0 THEN <<DigitChar[empty]>> ELSE <<>>) \o <<c>>
              \o RankText(pieces, rank, file + 1, 0)
         ELSE RankText(pieces, rank, file + 1, empty + 1)

RECURSIVE PlacementText(_, _)
\* The piece-placement field from rank `rank` down to the first rank.
PlacementText(pieces, rank) ==
    RankText(pieces, rank, 0, 0)
    \o (IF rank > 0 THEN <<"/">> \o PlacementText(pieces, rank - 1) ELSE <<>>)

\* The text "<placement> <side> <castling> <en passant> 0 1".
FenText(pieces, side_to_move, castle, en_passant_file) ==
    PlacementText(pieces, 7)
    \o <<" ", IF side_to_move = White THEN "w" ELSE "b", " ">>
    \o (IF castle = {} THEN <<"-">>
        ELSE SelectSeq(<<"K", "Q", "k", "q">>, LAMBDA right : right \in castle))
    \o <<" ">>
    \o (IF IsSome(en_passant_file)
        THEN <<FileLetters[Unwrap(en_passant_file) + 1],
               IF side_to_move = White THEN "6" ELSE "3">>
        ELSE <<"-">>)
    \o <<" ", "0", " ", "1">>

\* Board's Display (board.to_string()).
Board_to_string(board) ==
    FenText(board.pieces, board.side_to_move, board.castle,
            IF IsSome(board.en_passant)
            THEN Some(FileOf(Unwrap(board.en_passant))) ELSE None)

\* The castling flags and en-passant file read from the third and fourth
\* field of a position string (absent fields read as "-").
CastleFlags(fields) ==
    {right \in {"K", "Q", "k", "q"} : Len(fields) >= 3 /\ contains(fields[3], right)}
EnPassantFile(fields) ==
    IF Len(fields) >= 4 /\ fields[4] # <<"-">> /\ fields[4] # <<>>
       /\ \E i \in 1 .. 8 : FileLetters[i] = fields[4][1]
    THEN Some((CHOOSE i \in 1 .. 8 : FileLetters[i] = fields[4][1]) - 1)
    ELSE None

\* SetupState::from_board
SetupState_from_board(board, player_color) ==
    LET fen == Board_to_string(board)
        parts == split_whitespace(fen)
    IN [pieces |-> board.pieces,
        selected_palette |-> Some("P"),
        side_to_move |-> board.side_to_move,
        castle |-> CastleFlags(parts),
        en_passant_file |-> EnPassantFile(parts),
        fen_string |-> fen,
        fen_error |-> None,
        player_color |-> player_color]

\* SetupState::rebuild_fen: a castling right is written only with king and
\* rook at home.
rebuild_fen(self) ==
    LET has(s, c) == self.pieces[s] = c
        eff == {right \in self.castle :
                  /\ has(IF right \in {"K", "Q"} THEN 4 ELSE 60,
                         IF right \in {"K", "Q"} THEN "K" ELSE "k")
                  /\ has(CASE right = "K" -> 7 [] right = "Q" -> 0
                           [] right = "k" -> 63 [] OTHER -> 56,
                         IF right \in {"K", "Q"} THEN "R" ELSE "r")}
        fen == FenText(self.pieces, self.side_to_move, eff, self.en_passant_file)
    IN [self EXCEPT !.fen_string = fen, !.fen_error = safe_parse_board(fen).error]

\* SetupState::parse_fen_to_state
parse_fen_to_state(self, fen) ==
    LET parsed == safe_parse_board(fen)
        parts == split_whitespace(fen)
    IN IF IsSome(parsed.board)
       THEN [self EXCEPT
               !.fen_string = fen,
               !.pieces = Unwrap(parsed.board).pieces,
               !.side_to_move = IF Len(parts) >= 2
                                THEN (IF parts[2] = <<"b">> THEN Black ELSE White)
                                ELSE @,
               !.castle = IF Len(parts) >= 3 THEN CastleFlags(parts) ELSE @,
               !.en_passant_file = IF Len(parts) >= 4 THEN EnPassantFile(parts) ELSE @,
               !.fen_error = None]
       ELSE [self EXCEPT !.fen_string = fen, !.fen_error = parsed.error]

(***************************************************************************)
(* The editor's handlers (ChessApp::update).  Each takes the session, the  *)
(* application's engine_thinking flag and its screen and gives the three   *)
(* back, with `asked`: whether it sends the engine a position to search.   *)
(***************************************************************************)
Handled(game, engine_thinking, screen) ==
    [game |-> game, engine_thinking |-> engine_thinking, screen |-> screen,
     asked |-> FALSE]

\* A handler that edits the setup state, and does nothing on the game screen.
OnSetup(game, engine_thinking, screen, Edit(_)) ==
    IF IsSome(screen)
    THEN Handled(game, engine_thinking, Some(Edit(Unwrap(screen))))
    ELSE Handled(game, engine_thinking, screen)

\* Message::EnterSetupMode
EnterSetupMode(game, engine_thinking, screen) ==
    Handled(game, engine_thinking,
            Some(SetupState_from_board(current_position(game), game.player_color)))

\* Message::ExitSetupMode
ExitSetupMode(game, engine_thinking, screen) ==
    Handled(game, engine_thinking, None)

\* Message::SetupSquareClicked
SetupSquareClicked(game, engine_thinking, screen, sq) ==
    LET Edit(state) ==
          rebuild_fen([state EXCEPT !.pieces[sq] =
                         IF IsSome(state.selected_palette)
                         THEN Unwrap(state.selected_palette) ELSE Empty])
    IN OnSetup(game, engine_thinking, screen, Edit)

\* Message::SetupPaletteSelected
SetupPaletteSelected(game, engine_thinking, screen, palette) ==
    LET Edit(state) == [state EXCEPT !.selected_palette = palette]
    IN OnSetup(game, engine_thinking, screen, Edit)

\* Message::SetupSideToMove
SetupSideToMove(game, engine_thinking, screen, color) ==
    LET Edit(state) == rebuild_fen([state EXCEPT !.side_to_move = color])
    IN OnSetup(game, engine_thinking, screen, Edit)

\* Message::SetupCastlingToggle: bit 1 is White's king side, 2 White's queen
\* side, 4 Black's king side, 8 Black's queen side.
SetupCastlingToggle(game, engine_thinking, screen, mask) ==
    LET toggled == {right \in {"K", "Q", "k", "q"} :
                      (mask \div (CASE right = "K" -> 1 [] right = "Q" -> 2
                                    [] right = "k" -> 4 [] OTHER -> 8)) % 2 = 1}
        Edit(state) ==
          rebuild_fen([state EXCEPT !.castle = (@ \ toggled) \cup (toggled \ @)])
    IN OnSetup(game, engine_thinking, screen, Edit)

\* Message::SetupEnPassant
SetupEnPassant(game, engine_thinking, screen, file) ==
    LET Edit(state) == rebuild_fen([state EXCEPT !.en_passant_file = file])
    IN OnSetup(game, engine_thinking, screen, Edit)

\* Message::SetupFenChanged
SetupFenChanged(game, engine_thinking, screen, fen) ==
    LET Edit(state) == parse_fen_to_state(state, fen)
    IN OnSetup(game, engine_thinking, screen, Edit)

\* Message::SetupClearBoard
SetupClearBoard(game, engine_thinking, screen) ==
    LET Edit(state) ==
          rebuild_fen([state EXCEPT !.pieces = EmptyPieces, !.castle = {},
                                    !.en_passant_file = None])
    IN OnSetup(game, engine_thinking, screen, Edit)

\* Message::SetupLoadStart
SetupLoadStart(game, engine_thinking, screen) ==
    LET Edit(state) == SetupState_from_board(Board_default, state.player_color)
    IN OnSetup(game, engine_thinking, screen, Edit)

\* Message::SetupPlayerColor
SetupPlayerColor(game, engine_thinking, screen, color) ==
    LET Edit(state) == [state EXCEPT !.player_color = color]
    IN OnSetup(game, engine_thinking, screen, Edit)

\* A SetupStartGame handler that loads the string whatever fen_error says.
SetupStartGame_ignoring_fen_error(game, engine_thinking, screen) ==
    IF IsNone(screen) THEN Handled(game, engine_thinking, screen)
    ELSE LET state == Unwrap(screen)
             loaded == reset_from_fen(game, state.fen_string, state.player_color)
         IN Handled(loaded, engine_thinking, None)

\* Message::SetupStartGame
SetupStartGame(game, engine_thinking, screen) ==
    IF IsNone(screen) \/ IsSome(Unwrap(screen).fen_error)
    THEN Handled(game, engine_thinking, screen)
    ELSE LET state == Unwrap(screen)
             loaded == reset_from_fen(game, state.fen_string, state.player_color)
             needs_engine_move ==
               current_position(loaded).side_to_move # state.player_color
         IN IF needs_engine_move
            THEN [game |-> set_thinking(loaded, TRUE), engine_thinking |-> TRUE,
                  screen |-> None, asked |-> TRUE]
            ELSE Handled(loaded, engine_thinking, None)

\* Message::EngineMoved
EngineMoved(game, engine_thinking, screen, best_move, overflow_checks) ==
    Handled(make_engine_move(game, best_move, overflow_checks).self, FALSE, screen)


(***************************************************************************)
(* The engine bridge (src/src/engine.rs, struct ChessEngine).              *)
(*   process       None, or Some of the child's handle: [stdin |-> None    *)
(*                 or Some("pipe")]                                        *)
(*   move_channel  the mpsc channel of move_sender and move_receiver: the  *)
(*                 moves sent and not yet received, oldest first           *)
(*   think_time    milliseconds                                            *)
(* Around the struct is the world it talks to:                             *)
(*   child    "none", "running" or "exited": the engine process            *)
(*   stdin    the lines the child was written, in order                    *)
(*   stdout   the lines the child has printed and the reader thread has    *)
(*            not read yet                                                 *)
(*   reader   "not_started", "running" or "terminated": the reader thread  *)
(* A line of text is the sequence of its characters.                       *)
(***************************************************************************)
ChessEngine_new == [process |-> None, move_channel |-> <<>>, think_time |-> 2000]

WorldBeforeStart ==
    [child |-> "none", stdin |-> <<>>, stdout |-> <<>>, reader |-> "not_started"]

RECURSIVE Decimal(_)
\* The decimal digits of a number, as format!("{}", n) writes them.
Decimal(n) ==
    LET digit == <<"0", "1", "2", "3", "4", "5", "6", "7", "8", "9">>[(n % 10) + 1]
    IN IF n < 10 THEN <<digit>> ELSE Append(Decimal(n \div 10), digit)

\* The lines start writes to the engine once it is spawned.
InitCommands(skill_level) ==
    << <<"uci">>, <<"isready">>,
       <<"setoption name Skill Level value ">> \o Decimal(skill_level),
       <<"setoption name Threads value 4">>,
       <<"setoption name Hash value 128">>,
       <<"setoption name UCI_AnalyseMode value false">>,
       <<"setoption name UCI_LimitStrength value false">> >>

\* ChessEngine::start, with what the system answers: whether the path
\* exists, whether spawning succeeds, and whether the child still reads its
\* input when the first lines are written (a write to a child that has
\* exited fails with an io::Error).  The result is "Ok" or the error.
ChessEngine_start(self, world, path_exists, spawn_ok, child_reads, skill_level, think_time) ==
    IF ~path_exists
    THEN [self |-> self, world |-> world, ret |-> "Engine not found at path"]
    ELSE IF ~spawn_ok
    THEN [self |-> self, world |-> world, ret |-> "Io"]
    ELSE IF ~child_reads
    THEN [self |-> [self EXCEPT !.process = Some([stdin |-> None]),
                                !.think_time = think_time],
          world |-> [world EXCEPT !.child = "exited"],
          ret |-> "Io"]
    ELSE [self |-> [self EXCEPT !.process = Some([stdin |-> Some("pipe")]),
                                !.think_time = think_time],
          world |-> [world EXCEPT !.child = "running",
                                  !.stdin = @ \o InitCommands(skill_level),
                                  !.reader = "running"],
          ret |-> "Ok"]

\* A get_move that asks for the search before it sends the position.
get_move_go_first(self, world, fen) ==
    IF IsSome(self.process) /\ IsSome(Unwrap(self.process).stdin)
    THEN IF world.child = "running"
         THEN [self |-> self,
               world |-> [world EXCEPT !.stdin =
                            @ \o << <<"go movetime ">> \o Decimal(self.think_time),
                                    <<"position fen ">> \o fen >>],
               ret |-> "Ok"]
         ELSE [self |-> self, world |-> world, ret |-> "Io"]
    ELSE [self |-> self, world |-> world, ret |-> "Engine process not available"]

\* ChessEngine::get_move: the position and the go command are written when
\* the struct holds a process with its stdin; the write fails with an
\* io::Error when the child has exited.
get_move(self, world, fen) ==
    IF IsSome(self.process) /\ IsSome(Unwrap(self.process).stdin)
    THEN IF world.child = "running"
         THEN [self |-> self,
               world |-> [world EXCEPT !.stdin =
                            @ \o << <<"position fen ">> \o fen,
                                    <<"go movetime ">> \o Decimal(self.think_time) >>],
               ret |-> "Ok"]
         ELSE [self |-> self, world |-> world, ret |-> "Io"]
    ELSE [self |-> self, world |-> world, ret |-> "Engine process not available"]

\* A try_receive_move that takes the move sent last.
try_receive_move_newest_first(self) ==
    IF self.move_channel = <<>>
    THEN [self |-> self, ret |-> None]
    ELSE [self |-> [self EXCEPT !.move_channel =
                      SubSeq(@, 1, Len(@) - 1)],
          ret |-> Some(self.move_channel[Len(self.move_channel)])]

\* ChessEngine::try_receive_move (Receiver::try_recv): the oldest move of the
\* channel, or None when it is empty.
try_receive_move(self) ==
    IF self.move_channel = <<>>
    THEN [self |-> self, ret |-> None]
    ELSE [self |-> [self EXCEPT !.move_channel = Tail(@)],
          ret |-> Some(Head(self.move_channel))]

\* str::starts_with
starts_with(text, prefix) ==
    Len(text) >= Len(prefix) /\ SubSeq(text, 1, Len(prefix)) = prefix

Bestmove == <<"b", "e", "s", "t", "m", "o", "v", "e">>

\* A reader thread that sends the last token of a bestmove line.
ReadLine_sending_last_token(self, line) ==
    LET parts == split_whitespace(line) IN
    IF starts_with(line, Bestmove) /\ Len(parts) >= 2
    THEN [self EXCEPT !.move_channel = Append(@, parts[Len(parts)])]
    ELSE self

\* The body of the reader thread's loop, for one line of the child's output.
ReadLine(self, line) ==
    LET parts == split_whitespace(line) IN
    IF starts_with(line, Bestmove) /\ Len(parts) >= 2
    THEN [self EXCEPT !.move_channel = Append(@, parts[2])]
    ELSE self


(***************************************************************************)
(* The state machine: one ChessGame, driven through its public methods.    *)
(*   chess_game  the struct                                                *)
(*   last        the method called last and what it returned ("unit" for   *)
(*               a method without result, "panic" when the call panicked), *)
(*               whether the call committed a move, and for an undo        *)
(*               whether the call before it did                            *)
(* and around it the application (struct ChessApp):                        *)
(*   engine_thinking  its flag of that name                                *)
(*   screen           None on the game screen, Some(setup state) on the    *)
(*                    position editor                                      *)
(*   edits            how many times the editor has changed its state      *)
(* and the engine bridge (struct ChessEngine):                             *)
(*   chess_engine     the struct                                           *)
(*   world            the child process, its pipes and the reader thread   *)
(*   emitted          the lines the child has printed so far, in order     *)
(*   taken            the moves try_receive_move has returned, in order    *)
(* and the runtime that performs the commands ChessApp hands it:           *)
(*   commands         the asynchronous work and the messages in flight     *)
(*   session_lock     "free", or the holder of the Mutex around the game   *)
(*   engine_lock      "free", or the holder of the Mutex around the engine *)
(***************************************************************************)
VARIABLES chess_game, last, engine_thinking, screen, edits,
          chess_engine, world, emitted, taken,
          commands, session_lock, engine_lock

app_vars == <<engine_thinking, screen, edits>>
engine_vars == <<chess_engine, world, emitted, taken>>
runtime_vars == <<commands, session_lock, engine_lock>>
vars == <<chess_game, last, engine_thinking, screen, edits,
          chess_engine, world, emitted, taken,
          commands, session_lock, engine_lock>>

\* ChessEngine::new, before start is called.
EngineNotStarted ==
    /\ chess_engine = ChessEngine_new
    /\ world = WorldBeforeStart
    /\ emitted = <<>>
    /\ taken = <<>>

\* No command is in flight and no lock is held.
\*   startup     where the command of ChessApp::new stands: "start",
\*               "starting" with the lock around the engine, "first_move"
\*               before the first position is sent when the program plays
\*               White, "done"
\*   play_as_black  the flag of that name the command was built with
\*   get_moves   the commands that send the engine a position, not yet run
\*   checks      the CheckEngineMove messages in flight
\*   moved       the EngineMoved messages in flight, oldest first, each
\*               with the session's thinking flag at the time the move was
\*               taken from the channel
RuntimeIdle ==
    /\ commands = [startup |-> "done", play_as_black |-> FALSE, get_moves |-> 0,
                   checks |-> 0, moved |-> <<>>]
    /\ session_lock = "free"
    /\ engine_lock = "free"

\* Bounds of the model: the most plies a game is played to.
MaxPly == 2

\* The arguments the methods are called with.
E2 == make_square(1, 4)
E4 == make_square(3, 4)
A7 == make_square(6, 0)
A8 == make_square(7, 0)
SquareInputs == {E2, E4, A7, A8}

\* "7k/P7/8/8/8/8/8/4K3 w - - 0 1": a white pawn about to promote.
PromotionFen ==
    <<"7", "k", "/", "P", "7", "/", "8", "/", "8", "/", "8", "/", "8", "/", "8", "/",
      "4", "K", "3", " ", "w", " ", "-", " ", "-", " ", "0", " ", "1">>
\* "8/P7/8/8/8/8/8/4K3 w - - 0 1": no black king, which the library rejects.
NoKingFen ==
    <<"8", "/", "P", "7", "/", "8", "/", "8", "/", "8", "/", "8", "/", "8", "/",
      "4", "K", "3", " ", "w", " ", "-", " ", "-", " ", "0", " ", "1">>
FenInputs == {PromotionFen, NoKingFen}

UciInputs ==
    {<<"e", "2", "e", "4">>,
     <<"e", "7", "e", "5">>,
     <<"h", "8", "g", "7">>,
     <<"a", "7", "a", "8">>,
     <<"a", "7", "a", "8", "n">>,
     <<"e", "2", "e", "4", "q">>,
     <<"e", "2", "e">>,
     <<"i", "2", "e", "4">>,
     <<"e", "9", "e", "4">>,
     <<"A", "2", "e", "4">>,
     <<"e", "0", "e", "4">>,
     <<"U+0165", "U+0134">>,
     <<"e", "2", "U+0165", "U+0134", "x">>}

ViewIndexInputs == 0 .. MaxPly + 1

\* The program builds the game with ChessGame::new and, when started to play
\* Black, calls set_player_color(Black) on it.
Init ==
    /\ \E play_as_black \in BOOLEAN :
         chess_game = IF play_as_black
                      THEN set_player_color(ChessGame_new, Black)
                      ELSE ChessGame_new
    /\ last = [op |-> "new", ret |-> "unit", committed |-> FALSE,
               after_commit |-> FALSE]
    /\ engine_thinking = FALSE
    /\ screen = None
    /\ edits = 0
    /\ EngineNotStarted
    /\ RuntimeIdle

\* A panic ends the program.
Running == last.ret # "panic"

\* A call of a method that may commit a move; `out` is its [self, ret].
CommitCall(op, out) ==
    /\ Len(out.self.move_history) <= MaxPly
    /\ chess_game' = out.self
    /\ last' = [op |-> op, ret |-> out.ret,
                committed |-> Len(out.self.move_history) > Len(chess_game.move_history),
                after_commit |-> FALSE]
    /\ UNCHANGED app_vars
    /\ UNCHANGED engine_vars
    /\ UNCHANGED runtime_vars

\* A call of a method without result that commits nothing.
UnitCall(op, self) ==
    /\ chess_game' = self
    /\ last' = [op |-> op, ret |-> "unit", committed |-> FALSE,
                after_commit |-> FALSE]
    /\ UNCHANGED app_vars
    /\ UNCHANGED engine_vars
    /\ UNCHANGED runtime_vars

SelectSquare ==
    /\ Running
    /\ \E square \in SquareInputs :
         CommitCall("select_square", select_square(chess_game, square))

PromotePawn ==
    /\ Running
    /\ \E promotion_piece \in PromotionPieces :
         CommitCall("promote_pawn", promote_pawn(chess_game, promotion_piece))

MakeEngineMove ==
    /\ Running
    /\ \E uci_move \in UciInputs, overflow_checks \in BOOLEAN :
         CommitCall("make_engine_move",
                    make_engine_move(chess_game, uci_move, overflow_checks))

UndoMovePair ==
    /\ Running
    /\ chess_game' = undo_move_pair(chess_game)
    /\ last' = [op |-> "undo_move_pair", ret |-> "unit", committed |-> FALSE,
                after_commit |-> last.committed]
    /\ UNCHANGED app_vars
    /\ UNCHANGED engine_vars
    /\ UNCHANGED runtime_vars

Reset ==
    /\ Running
    /\ UnitCall("reset", reset(chess_game))

ResetFromFen ==
    /\ Running
    /\ \E fen \in FenInputs, player_color \in Colors :
         UnitCall("reset_from_fen", reset_from_fen(chess_game, fen, player_color))

ViewMoveAt ==
    /\ Running
    /\ \E index \in ViewIndexInputs :
         UnitCall("view_move_at", view_move_at(chess_game, index))

SetViewMode ==
    /\ Running
    /\ \E enabled \in BOOLEAN :
         UnitCall("set_view_mode", set_view_mode(chess_game, enabled))

FlipSide ==
    /\ Running
    /\ UnitCall("flip_side", flip_side(chess_game))

SetThinking ==
    /\ Running
    /\ \E thinking \in BOOLEAN :
         UnitCall("set_thinking", set_thinking(chess_game, thinking))

Next ==
    \/ SelectSquare
    \/ PromotePawn
    \/ MakeEngineMove
    \/ UndoMovePair
    \/ Reset
    \/ ResetFromFen
    \/ ViewMoveAt
    \/ SetViewMode
    \/ FlipSide
    \/ SetThinking

Spec == Init /\ [][Next]_vars

(***************************************************************************)
(* A longer game: the engine's moves, undos and views over the first four  *)
(* plies of a game from the start position, so that move_records holds     *)
(* more than one record and position_history more than three positions.    *)
(***************************************************************************)
MaxLongPly == 4

LongUciInputs ==
    {<<"e", "2", "e", "4">>,
     <<"e", "7", "e", "5">>,
     <<"g", "1", "f", "3">>,
     <<"b", "8", "c", "6">>}

LongMakeEngineMove ==
    /\ Running
    /\ \E uci_move \in LongUciInputs :
         LET out == make_engine_move(chess_game, uci_move, FALSE) IN
         /\ Len(out.self.move_history) <= MaxLongPly
         /\ UnitCall("make_engine_move", out.self)

LongViewMoveAt ==
    /\ Running
    /\ \E index \in 0 .. MaxLongPly + 1 :
         UnitCall("view_move_at", view_move_at(chess_game, index))

LongNext ==
    \/ LongMakeEngineMove
    \/ UndoMovePair
    \/ Reset
    \/ LongViewMoveAt
    \/ SetViewMode
    \/ FlipSide
    \/ SetThinking

LongSpec == Init /\ [][LongNext]_vars

(***************************************************************************)
(* The application with its position editor: the messages ChessApp::update *)
(* handles on the game screen and on the editor.  The engine is seen only  *)
(* by the replies it sends while the application waits for one.            *)
(***************************************************************************)
\* Bounds of the model: the most changes made in the editor.
MaxEdits == 2

\* "P6k/8/8/8/8/8/8/4K3 w - - 0 1": a pawn on the eighth rank.
PawnOnRank8Fen ==
    <<"P", "6", "k", "/", "8", "/", "8", "/", "8", "/", "8", "/", "8", "/", "8", "/",
      "4", "K", "3", " ", "w", " ", "-", " ", "-", " ", "0", " ", "1">>
\* "7k/8/8/8/8/8/8/4K3 w K - 0 1": a castling right without the rook, which
\* passes the string checks and which the library rejects.
CastleWithoutRookFen ==
    <<"7", "k", "/", "8", "/", "8", "/", "8", "/", "8", "/", "8", "/", "8", "/",
      "4", "K", "3", " ", "w", " ", "K", " ", "-", " ", "0", " ", "1">>
\* "7k/P7/8/8/8/8/4P3/4K3 w - - 0 1":
\* a white pawn about to promote, and a pawn on e2 to move instead.
PromotionOrPawnFen ==
    <<"7", "k", "/", "P", "7", "/", "8", "/", "8", "/", "8", "/", "8", "/",
      "4", "P", "3", "/", "4", "K", "3", " ", "w", " ", "-", " ", "-", " ",
      "0", " ", "1">>
SetupFenInputs ==
    {PromotionFen, PromotionOrPawnFen, NoKingFen, PawnOnRank8Fen,
     CastleWithoutRookFen}
SetupSquareInputs == {A8}
PaletteInputs == {None}
CastlingMaskInputs == {1}
EnPassantInputs == {Some(4)}
ReplyInputs == {<<"e", "7", "e", "5">>, <<"e", "2", "e", "4">>}

\* ChessApp::new: started to play Black, the application waits for the
\* engine's first move.
AppInit ==
    /\ \E play_as_black \in BOOLEAN :
         /\ chess_game = IF play_as_black
                         THEN set_thinking(set_player_color(ChessGame_new, Black), TRUE)
                         ELSE ChessGame_new
         /\ engine_thinking = play_as_black
    /\ last = [op |-> "new", ret |-> "unit", committed |-> FALSE,
               after_commit |-> FALSE]
    /\ screen = None
    /\ edits = 0
    /\ EngineNotStarted
    /\ RuntimeIdle

\* A message handled: `handled` is what the handler gives back.
Handle(op, handled) ==
    /\ Len(handled.game.move_history) <= MaxPly
    /\ chess_game' = handled.game
    /\ engine_thinking' = handled.engine_thinking
    /\ screen' = handled.screen
    /\ last' = [op |-> op, ret |-> IF handled.asked THEN "asked" ELSE "unit",
                committed |-> Len(handled.game.move_history)
                                > Len(chess_game.move_history),
                after_commit |-> FALSE]
    /\ UNCHANGED engine_vars
    /\ UNCHANGED runtime_vars

\* A message of the editor that changes the setup state.
HandleEdit(op, handled) ==
    /\ edits < MaxEdits
    /\ Handle(op, handled)
    /\ edits' = edits + 1

MsgSquareClicked ==
    /\ IsNone(screen)
    /\ \E square \in SquareInputs :
         Handle("SquareClicked",
                SquareClicked(chess_game, engine_thinking, square)
                  @@ [screen |-> screen])
    /\ UNCHANGED edits

MsgPromotePawn ==
    /\ IsNone(screen)
    /\ \E promotion_piece \in PromotionPieces :
         Handle("PromotePawn",
                PromotePawnChosen(chess_game, engine_thinking, promotion_piece)
                  @@ [screen |-> screen])
    /\ UNCHANGED edits

MsgEngineMoved ==
    /\ engine_thinking
    /\ \E best_move \in ReplyInputs, overflow_checks \in BOOLEAN :
         Handle("EngineMoved",
                EngineMoved(chess_game, engine_thinking, screen, best_move,
                            overflow_checks))
    /\ UNCHANGED edits

MsgEnterSetupMode ==
    /\ IsNone(screen)
    /\ Handle("EnterSetupMode", EnterSetupMode(chess_game, engine_thinking, screen))
    /\ UNCHANGED edits

MsgExitSetupMode ==
    /\ IsSome(screen)
    /\ Handle("ExitSetupMode", ExitSetupMode(chess_game, engine_thinking, screen))
    /\ UNCHANGED edits

MsgSetupSquareClicked ==
    /\ IsSome(screen)
    /\ \E sq \in SetupSquareInputs :
         HandleEdit("SetupSquareClicked",
                    SetupSquareClicked(chess_game, engine_thinking, screen, sq))

MsgSetupPaletteSelected ==
    /\ IsSome(screen)
    /\ \E palette \in PaletteInputs :
         HandleEdit("SetupPaletteSelected",
                    SetupPaletteSelected(chess_game, engine_thinking, screen, palette))

MsgSetupSideToMove ==
    /\ IsSome(screen)
    /\ \E color \in Colors :
         HandleEdit("SetupSideToMove",
                    SetupSideToMove(chess_game, engine_thinking, screen, color))

MsgSetupCastlingToggle ==
    /\ IsSome(screen)
    /\ \E mask \in CastlingMaskInputs :
         HandleEdit("SetupCastlingToggle",
                    SetupCastlingToggle(chess_game, engine_thinking, screen, mask))

MsgSetupEnPassant ==
    /\ IsSome(screen)
    /\ \E file \in EnPassantInputs :
         HandleEdit("SetupEnPassant",
                    SetupEnPassant(chess_game, engine_thinking, screen, file))

MsgSetupFenChanged ==
    /\ IsSome(screen)
    /\ \E fen \in SetupFenInputs :
         HandleEdit("SetupFenChanged",
                    SetupFenChanged(chess_game, engine_thinking, screen, fen))

MsgSetupClearBoard ==
    /\ IsSome(screen)
    /\ HandleEdit("SetupClearBoard", SetupClearBoard(chess_game, engine_thinking, screen))

MsgSetupLoadStart ==
    /\ IsSome(screen)
    /\ HandleEdit("SetupLoadStart", SetupLoadStart(chess_game, engine_thinking, screen))

MsgSetupPlayerColor ==
    /\ IsSome(screen)
    /\ \E color \in Colors :
         HandleEdit("SetupPlayerColor",
                    SetupPlayerColor(chess_game, engine_thinking, screen, color))

MsgSetupStartGame ==
    /\ IsSome(screen)
    /\ Handle("SetupStartGame", SetupStartGame(chess_game, engine_thinking, screen))
    /\ UNCHANGED edits

AppNext ==
    \/ MsgSquareClicked
    \/ MsgPromotePawn
    \/ MsgEngineMoved
    \/ MsgEnterSetupMode
    \/ MsgExitSetupMode
    \/ MsgSetupSquareClicked
    \/ MsgSetupPaletteSelected
    \/ MsgSetupSideToMove
    \/ MsgSetupCastlingToggle
    \/ MsgSetupEnPassant
    \/ MsgSetupFenChanged
    \/ MsgSetupClearBoard
    \/ MsgSetupLoadStart
    \/ MsgSetupPlayerColor
    \/ MsgSetupStartGame

AppSpec == AppInit /\ [][AppNext]_vars


(***************************************************************************)
(* The engine bridge with the engine process and the reader thread: the    *)
(* methods of ChessEngine are called while the child prints lines and      *)
(* exits and the reader thread reads what it printed.                      *)
(***************************************************************************)
\* Bounds of the model: the most lines the child prints and the most
\* positions it is sent.
MaxLines == 3
MaxRequests == 1

\* The lines the child prints.
LineInputs ==
    {<<"b", "e", "s", "t", "m", "o", "v", "e", " ", "e", "2", "e", "4">>,
     <<"b", "e", "s", "t", "m", "o", "v", "e", " ", "e", "7", "e", "5", " ",
       "p", "o", "n", "d", "e", "r", " ", "g", "1", "f", "3">>,
     <<"i", "n", "f", "o", " ", "d", "e", "p", "t", "h", " ", "1">>,
     <<"b", "e", "s", "t", "m", "o", "v", "e">>,
     <<" ", "b", "e", "s", "t", "m", "o", "v", "e", " ", "d", "2", "d", "4">>,
     <<"b", "e", "s", "t", "m", "o", "v", "e", "s", " ", "a", "7", "a", "8", "q">>}
SkillLevelInputs == {20}
ThinkTimeInputs == {500}

EngineInit ==
    /\ chess_game = ChessGame_new
    /\ last = [op |-> "new", ret |-> "unit", committed |-> FALSE,
               after_commit |-> FALSE]
    /\ engine_thinking = FALSE
    /\ screen = None
    /\ edits = 0
    /\ EngineNotStarted
    /\ RuntimeIdle

\* A call of a method of ChessEngine, or a step of the child or the reader
\* thread; `ret` is what the method returned.
EngineStep(op, ret) ==
    /\ last' = [op |-> op, ret |-> ret, committed |-> FALSE, after_commit |-> FALSE]
    /\ UNCHANGED <<chess_game, engine_thinking, screen, edits>>
    /\ UNCHANGED runtime_vars

\* The application calls start once; a failed attempt that spawned nothing
\* leaves the struct as new.
Start ==
    /\ IsNone(chess_engine.process)
    /\ \E path_exists \in BOOLEAN, spawn_ok \in BOOLEAN, child_reads \in BOOLEAN,
          skill_level \in SkillLevelInputs, think_time \in ThinkTimeInputs :
         LET out == ChessEngine_start(chess_engine, world, path_exists, spawn_ok,
                                      child_reads, skill_level, think_time)
         IN /\ chess_engine' = out.self
            /\ world' = out.world
            /\ EngineStep("start", out.ret)
    /\ UNCHANGED <<emitted, taken>>

GetMove ==
    /\ \E fen \in FenInputs :
         LET out == get_move(chess_engine, world, fen) IN
         /\ Len(out.world.stdin) <= Len(InitCommands(0)) + 2 * MaxRequests
         /\ chess_engine' = out.self
         /\ world' = out.world
         /\ EngineStep("get_move", out.ret)
    /\ UNCHANGED <<emitted, taken>>

TryReceiveMove ==
    /\ chess_engine' = try_receive_move(chess_engine).self
    /\ taken' = IF IsSome(try_receive_move(chess_engine).ret)
                THEN Append(taken, Unwrap(try_receive_move(chess_engine).ret))
                ELSE taken
    /\ EngineStep("try_receive_move", try_receive_move(chess_engine).ret)
    /\ UNCHANGED <<world, emitted>>

\* The child prints a line.
ChildPrints ==
    /\ world.child = "running"
    /\ Len(emitted) < MaxLines
    /\ \E line \in LineInputs :
         /\ world' = [world EXCEPT !.stdout = Append(@, line)]
         /\ emitted' = Append(emitted, line)
    /\ EngineStep("child prints", "unit")
    /\ UNCHANGED <<chess_engine, taken>>

\* The child exits; what it printed stays in the pipe.
ChildExits ==
    /\ world.child = "running"
    /\ world' = [world EXCEPT !.child = "exited"]
    /\ EngineStep("child exits", "unit")
    /\ UNCHANGED <<chess_engine, emitted, taken>>

\* The reader thread reads the next line.
ReaderReads ==
    /\ world.reader = "running"
    /\ world.stdout # <<>>
    /\ chess_engine' = ReadLine(chess_engine, Head(world.stdout))
    /\ world' = [world EXCEPT !.stdout = Tail(@)]
    /\ EngineStep("reader reads", "unit")
    /\ UNCHANGED <<emitted, taken>>

\* The reader thread finds the end of the child's output and ends.
ReaderEnds ==
    /\ world.reader = "running"
    /\ world.stdout = <<>>
    /\ world.child = "exited"
    /\ world' = [world EXCEPT !.reader = "terminated"]
    /\ EngineStep("reader ends", "unit")
    /\ UNCHANGED <<chess_engine, emitted, taken>>

EngineNext ==
    \/ Start
    \/ GetMove
    \/ TryReceiveMove
    \/ ChildPrints
    \/ ChildExits
    \/ ReaderReads
    \/ ReaderEnds

EngineSpec == EngineInit /\ [][EngineNext]_vars


(***************************************************************************)
(* The notation of moves (ChessGame::move_to_details): a position is       *)
(* loaded, and the first move from it is made by the player (two clicks,   *)
(* and the choice of a piece for a promotion) or by the engine; the move   *)
(* is written into move_records by move_to_details.                        *)
(***************************************************************************)
\* "4k3/8/8/8/8/8/4K3/R6R w - - 0 1":
\* two rooks on the first rank, which both reach d1.
TwoRooksOnRankFen ==
    <<"4", "k", "3", "/", "8", "/", "8", "/", "8", "/", "8", "/", "8", "/",
      "4", "K", "3", "/", "R", "6", "R", " ", "w", " ", "-", " ", "-", " ",
      "0", " ", "1">>
\* "R7/8/8/8/8/8/4K2k/R7 w - - 0 1":
\* two rooks on the a-file, which both reach a4.
TwoRooksOnFileFen ==
    <<"R", "7", "/", "8", "/", "8", "/", "8", "/", "8", "/", "8", "/", "4",
      "K", "2", "k", "/", "R", "7", " ", "w", " ", "-", " ", "-", " ", "0",
      " ", "1">>
\* "7k/8/8/1N6/8/8/8/1N1N2K1 w - - 0 1":
\* knights on b1, b5 and d1, which all reach c3.
ThreeKnightsFen ==
    <<"7", "k", "/", "8", "/", "8", "/", "1", "N", "6", "/", "8", "/", "8",
      "/", "8", "/", "1", "N", "1", "N", "2", "K", "1", " ", "w", " ", "-",
      " ", "-", " ", "0", " ", "1">>
\* "4k3/8/8/8/4r3/8/4R3/R3K3 w - - 0 1":
\* the rook on e2 is pinned and cannot reach a2 as the rook on a1 can.
PinnedRookFen ==
    <<"4", "k", "3", "/", "8", "/", "8", "/", "8", "/", "4", "r", "3", "/",
      "8", "/", "4", "R", "3", "/", "R", "3", "K", "3", " ", "w", " ", "-",
      " ", "-", " ", "0", " ", "1">>
\* "6k1/5ppp/8/8/8/8/8/R3K3 w Q - 0 1":
\* Ra8 mates, castling is possible.
BackRankFen ==
    <<"6", "k", "1", "/", "5", "p", "p", "p", "/", "8", "/", "8", "/", "8",
      "/", "8", "/", "8", "/", "R", "3", "K", "3", " ", "w", " ", "Q", " ",
      "-", " ", "0", " ", "1">>
\* "3k4/8/8/8/8/8/8/R3K3 w Q - 0 1":
\* castling queen side puts the rook on d1 and checks the king on d8.
CastleWithCheckFen ==
    <<"3", "k", "4", "/", "8", "/", "8", "/", "8", "/", "8", "/", "8", "/",
      "8", "/", "R", "3", "K", "3", " ", "w", " ", "Q", " ", "-", " ", "0",
      " ", "1">>
\* "7k/8/8/8/4N3/8/8/1N4K1 w - - 0 1":
\* knights on b1 and e4, on different files and ranks, which both reach c3.
TwoKnightsFen ==
    <<"7", "k", "/", "8", "/", "8", "/", "8", "/", "4", "N", "3", "/", "8",
      "/", "8", "/", "1", "N", "4", "K", "1", " ", "w", " ", "-", " ", "-",
      " ", "0", " ", "1">>
\* "r3k2r/8/8/8/8/8/8/R3K2R w KQkq - 0 1":
\* both sides may castle on either side.
BothCastlesFen ==
    <<"r", "3", "k", "2", "r", "/", "8", "/", "8", "/", "8", "/", "8", "/",
      "8", "/", "8", "/", "R", "3", "K", "2", "R", " ", "w", " ", "K", "Q",
      "k", "q", " ", "-", " ", "0", " ", "1">>
\* "4k3/8/8/8/8/8/4n3/4K3 w - - 0 1":
\* the king on e1 may take the knight on e2.
KingCaptureFen ==
    <<"4", "k", "3", "/", "8", "/", "8", "/", "8", "/", "8", "/", "8", "/",
      "4", "n", "3", "/", "4", "K", "3", " ", "w", " ", "-", " ", "-", " ",
      "0", " ", "1">>
\* "4k3/4p3/8/8/8/8/4P3/4K3 b - - 0 1":
\* Black is to move.
BlackToMoveFen ==
    <<"4", "k", "3", "/", "4", "p", "3", "/", "8", "/", "8", "/", "8", "/",
      "8", "/", "4", "P", "3", "/", "4", "K", "3", " ", "b", " ", "-", " ",
      "-", " ", "0", " ", "1">>
\* "4k3/8/8/3p4/4P3/8/8/4K3 w - - 0 1":
\* the pawn on e4 can take the pawn on d5.
PawnCaptureFen ==
    <<"4", "k", "3", "/", "8", "/", "8", "/", "3", "p", "4", "/", "4", "P", "3", "/",
      "8", "/", "8", "/", "4", "K", "3", " ", "w", " ", "-", " ", "-", " ",
      "0", " ", "1">>
NotationFens ==
    {TwoRooksOnRankFen, TwoRooksOnFileFen, ThreeKnightsFen, PinnedRookFen,
     TwoKnightsFen, BackRankFen, CastleWithCheckFen, BothCastlesFen,
     KingCaptureFen, BlackToMoveFen, PawnCaptureFen, PromotionFen, StartFen}

\* The coordinate text of a move, as an engine prints it.
UciOf(m) ==
    <<FileChar(m.source), RankChar(m.source), FileChar(m.dest), RankChar(m.dest)>>
    \o (IF IsSome(m.promotion) THEN <<Lower[Unwrap(m.promotion)]>> ELSE <<>>)

NotationInit ==
    /\ \E fen \in NotationFens, player_color \in Colors :
         chess_game = reset_from_fen(ChessGame_new, fen, player_color)
    /\ last = [op |-> "reset_from_fen", ret |-> "unit", committed |-> FALSE,
               after_commit |-> FALSE]
    /\ engine_thinking = FALSE
    /\ screen = None
    /\ edits = 0
    /\ EngineNotStarted
    /\ RuntimeIdle

NotationSelectSquare ==
    /\ chess_game.move_history = <<>>
    /\ \E square \in Squares :
         CommitCall("select_square", select_square(chess_game, square))

NotationPromotePawn ==
    /\ chess_game.move_history = <<>>
    /\ \E promotion_piece \in PromotionPieces :
         CommitCall("promote_pawn", promote_pawn(chess_game, promotion_piece))

\* The engine answers with a legal move when it is its turn.
NotationMakeEngineMove ==
    /\ chess_game.move_history = <<>>
    /\ chess_game.game.side_to_move # chess_game.player_color
    /\ \E m \in LegalMoves(chess_game.game), overflow_checks \in BOOLEAN :
         CommitCall("make_engine_move",
                    make_engine_move(chess_game, UciOf(m), overflow_checks))

NotationNext ==
    \/ NotationSelectSquare
    \/ NotationPromotePawn
    \/ NotationMakeEngineMove

NotationSpec == NotationInit /\ [][NotationNext]_vars


(***************************************************************************)
(* The application playing against the engine: the messages of the game    *)
(* screen and of a load from the editor, the commands ChessApp hands to    *)
(* the runtime (the start of the engine, the requests for a move), the     *)
(* polling of the channel, the engine answering each search it was sent,   *)
(* and the reader thread.  A handler of ChessApp::update takes the lock    *)
(* around the game for the time it runs; a command that asks for a move    *)
(* takes the lock around the game, then the lock around the engine, and    *)
(* calls get_move with both.                                               *)
(***************************************************************************)
\* Bounds of the model: the most positions sent to the engine and the most
\* CheckEngineMove messages counted in flight.
MaxSearches == 2
MaxChecks == 1

\* The searches the child was sent: the "go" lines written to it.
Searches(stdin) ==
    Cardinality({i \in 1 .. Len(stdin) : stdin[i][1] = "go movetime "})

\* The position of the child's n-th search: the text after "position fen "
\* on the line before the n-th "go".
SearchPosition(stdin, n) ==
    LET go == CHOOSE i \in 1 .. Len(stdin) :
                 /\ stdin[i][1] = "go movetime "
                 /\ Cardinality({j \in 1 .. i : stdin[j][1] = "go movetime "}) = n
    IN Board_from_str(Tail(stdin[go - 1]))

\* The moves the engine may answer a search of the position with: the legal
\* ones among ReplyInputs.
EngineReplies(parsed) ==
    IF IsNone(parsed) THEN {}
    ELSE {reply \in ReplyInputs :
             \E source \in {s \in Squares : SquareText(s) = SubSeq(reply, 1, 2)} :
                 \E m \in LegalFrom(Unwrap(parsed), source) : UciOf(m) = reply}

\* The positions asked for and not yet sent, the startup's included.
Unsent ==
    commands.get_moves
    + (IF commands.play_as_black /\ commands.startup # "done" THEN 1 ELSE 0)

\* ChessApp::new, with its command to start the engine still to run.
PlayInit ==
    /\ \E play_as_black \in BOOLEAN :
         /\ chess_game = IF play_as_black
                         THEN set_thinking(set_player_color(ChessGame_new, Black), TRUE)
                         ELSE ChessGame_new
         /\ engine_thinking = play_as_black
         /\ commands = [startup |-> "start", play_as_black |-> play_as_black,
                        get_moves |-> 0, checks |-> 0, moved |-> <<>>]
    /\ last = [op |-> "new", ret |-> "unit", committed |-> FALSE,
               after_commit |-> FALSE]
    /\ screen = None
    /\ edits = 0
    /\ EngineNotStarted
    /\ session_lock = "free"
    /\ engine_lock = "free"

\* A message handled by ChessApp::update under the lock around the game:
\* `handled` is what the handler gives back, `rest` the work in flight
\* without the message; a handler that asks the engine for a move hands the
\* runtime a command.
PlayHandle(op, handled, rest) ==
    /\ session_lock = "free"
    /\ Len(handled.game.move_history) <= MaxPly
    /\ handled.asked => Unsent + Searches(world.stdin) < MaxSearches
    /\ chess_game' = handled.game
    /\ engine_thinking' = handled.engine_thinking
    /\ screen' = handled.screen
    /\ commands' = [rest EXCEPT !.get_moves = IF handled.asked THEN @ + 1 ELSE @]
    /\ last' = [op |-> op, ret |-> IF handled.asked THEN "asked" ELSE "unit",
                committed |-> Len(handled.game.move_history)
                                > Len(chess_game.move_history),
                after_commit |-> FALSE]
    /\ UNCHANGED <<edits, session_lock, engine_lock>>
    /\ UNCHANGED engine_vars

ClickInputs == {E2, E4}

OnSquareClicked ==
    /\ IsNone(screen)
    /\ \E square \in ClickInputs :
         PlayHandle("SquareClicked",
                    SquareClicked(chess_game, engine_thinking, square)
                      @@ [screen |-> screen],
                    commands)

OnResetGame ==
    /\ IsNone(screen)
    /\ PlayHandle("ResetGame",
                  ResetGame(chess_game, engine_thinking) @@ [screen |-> screen],
                  commands)

OnUndoMove ==
    /\ IsNone(screen)
    /\ PlayHandle("UndoMove",
                  UndoMove(chess_game, engine_thinking) @@ [screen |-> screen],
                  commands)

OnFlipSide ==
    /\ IsNone(screen)
    /\ PlayHandle("FlipSide",
                  FlipSidePressed(chess_game, engine_thinking) @@ [screen |-> screen],
                  commands)

OnEnterSetupMode ==
    /\ IsNone(screen)
    /\ PlayHandle("EnterSetupMode",
                  EnterSetupMode(chess_game, engine_thinking, screen), commands)

OnSetupPlayerColor ==
    /\ IsSome(screen)
    /\ \E color \in Colors :
         PlayHandle("SetupPlayerColor",
                    SetupPlayerColor(chess_game, engine_thinking, screen, color),
                    commands)

OnSetupStartGame ==
    /\ IsSome(screen)
    /\ PlayHandle("SetupStartGame",
                  SetupStartGame(chess_game, engine_thinking, screen), commands)

\* Message::EngineMoved, for the oldest move taken from the channel.
OnEngineMoved ==
    /\ commands.moved # <<>>
    /\ \E overflow_checks \in BOOLEAN :
         PlayHandle("EngineMoved",
                    EngineMoved(chess_game, engine_thinking, screen,
                                Head(commands.moved).best_move, overflow_checks),
                    [commands EXCEPT !.moved = Tail(@)])

\* A step of the runtime that leaves the application and the game alone.
RuntimeStep(op) ==
    /\ UNCHANGED <<chess_game, last, engine_thinking, screen, edits>>

\* Message::Tick: a CheckEngineMove follows while the application waits.
OnTick ==
    /\ engine_thinking
    /\ commands.checks < MaxChecks
    /\ commands' = [commands EXCEPT !.checks = @ + 1]
    /\ RuntimeStep("Tick")
    /\ UNCHANGED <<session_lock, engine_lock>>
    /\ UNCHANGED engine_vars

\* Message::CheckEngineMove: a move in the channel is taken and sent on as
\* EngineMoved; without one the check is repeated while the application
\* waits.
OnCheckEngineMove ==
    /\ commands.checks > 0
    /\ engine_lock = "free"
    /\ LET out == try_receive_move(chess_engine) IN
       IF IsSome(out.ret)
       THEN /\ chess_engine' = out.self
            /\ taken' = Append(taken, Unwrap(out.ret))
            /\ commands' = [commands EXCEPT
                              !.checks = @ - 1,
                              !.moved = Append(@, [best_move |-> Unwrap(out.ret),
                                                   thinking |-> chess_game.thinking])]
       ELSE /\ ~engine_thinking
            /\ commands' = [commands EXCEPT !.checks = @ - 1]
            /\ UNCHANGED <<chess_engine, taken>>
    /\ RuntimeStep("CheckEngineMove")
    /\ UNCHANGED <<session_lock, engine_lock, world, emitted>>

\* The command of ChessApp::new takes the lock around the engine.
StartupLock ==
    /\ commands.startup = "start"
    /\ engine_lock = "free"
    /\ engine_lock' = "startup"
    /\ commands' = [commands EXCEPT !.startup = "starting"]
    /\ RuntimeStep("startup locks")
    /\ UNCHANGED session_lock
    /\ UNCHANGED engine_vars

\* and starts the engine; when that worked and the program plays White, it
\* goes on to ask for the first move.
StartupStart ==
    /\ commands.startup = "starting"
    /\ \E path_exists \in BOOLEAN, spawn_ok \in BOOLEAN, child_reads \in BOOLEAN,
          skill_level \in SkillLevelInputs, think_time \in ThinkTimeInputs :
         LET out == ChessEngine_start(chess_engine, world, path_exists, spawn_ok,
                                      child_reads, skill_level, think_time)
         IN /\ chess_engine' = out.self
            /\ world' = out.world
            /\ commands' = [commands EXCEPT !.startup =
                              IF out.ret = "Ok" /\ commands.play_as_black
                              THEN "first_move" ELSE "done"]
    /\ engine_lock' = "free"
    /\ RuntimeStep("startup starts")
    /\ UNCHANGED <<session_lock, emitted, taken>>

\* A startup command that takes the lock around the engine before the lock
\* around the game.
LockOrder_startup_engine_first(holder) ==
    IF holder = "first_move" THEN <<"engine", "session">> ELSE <<"session", "engine">>

\* The order in which a command that asks for a move takes its locks: the
\* lock around the game, then the lock around the engine.
LockOrder(holder) == <<"session", "engine">>

\* A command that asks for a move takes its first lock when that is free,
CommandLock ==
    /\ commands.startup = "first_move" \/ commands.get_moves > 0
    /\ \E holder \in {"first_move", "get_move"} :
         /\ holder = "first_move" => commands.startup = "first_move"
         /\ holder = "get_move" => commands.get_moves > 0
         /\ session_lock # holder
         /\ engine_lock # holder
         /\ IF LockOrder(holder)[1] = "session"
            THEN /\ session_lock = "free"
                 /\ session_lock' = holder
                 /\ UNCHANGED engine_lock
            ELSE /\ engine_lock = "free"
                 /\ engine_lock' = holder
                 /\ UNCHANGED session_lock
    /\ RuntimeStep("command locks")
    /\ UNCHANGED commands
    /\ UNCHANGED engine_vars

\* then, holding it, its second lock when that is free,
CommandLockSecond ==
    /\ session_lock # engine_lock
    /\ \E holder \in {"first_move", "get_move"} :
         IF LockOrder(holder)[1] = "session"
         THEN /\ session_lock = holder
              /\ engine_lock = "free"
              /\ engine_lock' = holder
              /\ UNCHANGED session_lock
         ELSE /\ engine_lock = holder
              /\ session_lock = "free"
              /\ session_lock' = holder
              /\ UNCHANGED engine_lock
    /\ RuntimeStep("command locks")
    /\ UNCHANGED commands
    /\ UNCHANGED engine_vars

\* and calls get_move with the position shown, holding both; a
\* CheckEngineMove follows (for the startup, when get_move worked).
CommandGetMove ==
    /\ session_lock \in {"first_move", "get_move"}
    /\ engine_lock = session_lock
    /\ LET out == get_move(chess_engine, world,
                           Board_to_string(current_position(chess_game)))
           check == session_lock = "get_move" \/ out.ret = "Ok"
       IN /\ chess_engine' = out.self
          /\ world' = out.world
          /\ commands' = [commands EXCEPT
                            !.startup = IF session_lock = "first_move"
                                        THEN "done" ELSE @,
                            !.get_moves = IF session_lock = "get_move"
                                          THEN @ - 1 ELSE @,
                            !.checks = IF check /\ @ < MaxChecks THEN @ + 1 ELSE @]
    /\ session_lock' = "free"
    /\ engine_lock' = "free"
    /\ RuntimeStep("command asks")
    /\ UNCHANGED <<emitted, taken>>

\* The engine answers its oldest unanswered search with a legal move of the
\* position it was sent.
ChildAnswers ==
    /\ world.child = "running"
    /\ Len(emitted) < Searches(world.stdin)
    /\ \E reply \in EngineReplies(SearchPosition(world.stdin, Len(emitted) + 1)) :
         /\ world' = [world EXCEPT !.stdout = Append(@, Bestmove \o <<" ">> \o reply)]
         /\ emitted' = Append(emitted, Bestmove \o <<" ">> \o reply)
    /\ RuntimeStep("child answers")
    /\ UNCHANGED runtime_vars
    /\ UNCHANGED <<chess_engine, taken>>

ReaderSends ==
    /\ world.reader = "running"
    /\ world.stdout # <<>>
    /\ chess_engine' = ReadLine(chess_engine, Head(world.stdout))
    /\ world' = [world EXCEPT !.stdout = Tail(@)]
    /\ RuntimeStep("reader reads")
    /\ UNCHANGED <<emitted, taken>>
    /\ UNCHANGED runtime_vars

PlayNext ==
    \/ OnSquareClicked
    \/ OnResetGame
    \/ OnUndoMove
    \/ OnFlipSide
    \/ OnEnterSetupMode
    \/ OnSetupPlayerColor
    \/ OnSetupStartGame
    \/ OnEngineMoved
    \/ OnTick
    \/ OnCheckEngineMove
    \/ StartupLock
    \/ StartupStart
    \/ CommandLock
    \/ CommandLockSecond
    \/ CommandGetMove
    \/ ChildAnswers
    \/ ReaderSends

PlaySpec == PlayInit /\ [][PlayNext]_vars


(***************************************************************************)
(* Properties of ChessGame, stated of the reachable states of Spec.        *)
(***************************************************************************)
Logs(self) == <<self.position_history, self.move_history>>

\* The outcomes of the calls that commit a move in state self.
CommitOutcomes(self) ==
    {out \in {select_square(self, square) : square \in SquareInputs}
             \cup {promote_pawn(self, piece) : piece \in PromotionPieces}
             \cup {make_engine_move(self, uci_move, overflow_checks) :
                     uci_move \in UciInputs, overflow_checks \in BOOLEAN} :
        Len(out.self.move_history) = Len(self.move_history) + 1}

\* C1: in every reachable state position_history holds exactly one entry
\* more than move_history.
C1_HistoryLengths ==
    Len(chess_game.position_history) = Len(chess_game.move_history) + 1

\* Reached by an undo that left one move of two.
C1_Witness ==
    /\ last.op = "undo_move_pair"
    /\ Len(chess_game.move_history) = 1
    /\ Len(chess_game.position_history) = 2

\* C2, as amended: an undo right after a commit gives back the logs of
\* before the commit when the thinking flag is set at the undo or when no
\* move preceded the commit; with the flag clear and a move before the
\* commit, the undo removes the commit and that move, so the logs are those
\* of before the commit less their last entry.
C2_UndoAfterCommit ==
    \A out \in CommitOutcomes(chess_game) :
        /\ Logs(undo_move_pair(set_thinking(out.self, TRUE))) = Logs(chess_game)
        /\ Logs(undo_move_pair(out.self)) =
               IF out.self.thinking \/ Len(chess_game.move_history) = 0
               THEN Logs(chess_game)
               ELSE <<Pop(chess_game.position_history), Pop(chess_game.move_history)>>

\* Reached by a commit onto a history of one move, undone at once with the
\* thinking flag clear.
C2_Witness ==
    /\ last.op = "undo_move_pair"
    /\ last.after_commit
    /\ chess_game.message = Text("Undid last move pair.")

\* C2 as stated: with the thinking flag clear and a move in the history, a
\* commit followed by an undo gives back the logs of before the commit.
C2_ExactInverse ==
    (~chess_game.thinking /\ Len(chess_game.move_history) >= 1) =>
        \A out \in CommitOutcomes(chess_game) :
            Logs(undo_move_pair(out.self)) = Logs(chess_game)

\* The records of the plies before the last one, which `mover` made: the
\* last record goes with White's ply, and loses its black half with Black's.
RecordsBeforeLastPly(move_records, mover) ==
    IF move_records = <<>> THEN <<>>
    ELSE IF mover = White THEN Pop(move_records)
    ELSE [move_records EXCEPT ![Len(move_records)].black_move = None]

\* C3: an undo while the engine is thinking, with a move in the history,
\* removes the last ply from both logs and that ply's record, clears the
\* thinking flag, and keeps the earlier plies and their records.
C3_UndoWhileThinking ==
    (chess_game.thinking /\ Len(chess_game.move_history) >= 1) =>
        LET undone == undo_move_pair(chess_game) IN
        /\ undone.move_history = Pop(chess_game.move_history)
        /\ undone.position_history = Pop(chess_game.position_history)
        /\ ~undone.thinking
        /\ undone.move_records =
               RecordsBeforeLastPly(chess_game.move_records,
                                    Opp(Last(chess_game.position_history).side_to_move))

\* C4: an undo while the engine is not thinking removes two plies from a
\* history of two or more and the one ply of a history of one; after it the
\* live position is the last of position_history, nothing is selected and
\* view_move_index is the last index.
C4_UndoWhenIdle ==
    ~chess_game.thinking =>
        LET undone == undo_move_pair(chess_game)
            n == Len(chess_game.move_history)
            removed == IF n >= 2 THEN 2 ELSE n
        IN /\ undone.move_history = SubSeq(chess_game.move_history, 1, n - removed)
           /\ undone.position_history =
                  SubSeq(chess_game.position_history, 1, n + 1 - removed)
           /\ n >= 1 =>
                  /\ undone.game = Last(undone.position_history)
                  /\ undone.selected_square = None
                  /\ undone.possible_moves = <<>>
                  /\ undone.view_move_index = Len(undone.position_history) - 1

\* Reached by an undo of two plies that found the engine not thinking.
C4_Witness ==
    /\ last.op = "undo_move_pair"
    /\ chess_game.message = Text("Undid last move pair.")
    /\ Len(chess_game.position_history) = 1

\* C5: an undo on an empty history changes the message and nothing else.
C5_UndoOnEmptyHistory ==
    Len(chess_game.move_history) = 0 =>
        undo_move_pair(chess_game) =
            [chess_game EXCEPT !.message = Text("No moves to undo.")]

\* Reached by an undo on an empty history with a square selected and the
\* engine thinking.
C5_Witness ==
    /\ last.op = "undo_move_pair"
    /\ chess_game.message = Text("No moves to undo.")
    /\ chess_game.thinking
    /\ IsSome(chess_game.selected_square)

\* C6: in view mode select_square returns false and changes nothing,
\* whatever the square and the index viewed.
C6_SelectInViewMode ==
    chess_game.view_mode =>
        \A square \in Squares :
            select_square(chess_game, square) = [self |-> chess_game, ret |-> "false"]

\* Reached by a select_square on the human's turn while an earlier position
\* of a game of two moves is viewed.
C6_Witness ==
    /\ last.op = "select_square"
    /\ last.ret = "false"
    /\ chess_game.view_mode
    /\ chess_game.game.side_to_move = chess_game.player_color
    /\ Len(chess_game.move_history) = 2
    /\ chess_game.view_move_index = 1

IsFileChar(c) == \E i \in 1 .. 8 : FileLetters[i] = c
IsRankChar(c) == \E i \in 1 .. 8 : RankDigits[i] = c

\* A move string of fewer than four chars, or with a coordinate char
\* outside a-h / 1-8.
Malformed(uci_move) ==
    \/ Len(uci_move) < 4
    \/ ~IsFileChar(uci_move[1])
    \/ ~IsRankChar(uci_move[2])
    \/ ~IsFileChar(uci_move[3])
    \/ ~IsRankChar(uci_move[4])

\* C7: make_engine_move returns false and changes nothing for a string of
\* fewer than four chars or with a coordinate char outside a-h / 1-8.
C7_RejectsMalformed ==
    \A uci_move \in UciInputs, overflow_checks \in BOOLEAN :
        Malformed(uci_move) =>
            make_engine_move(chess_game, uci_move, overflow_checks) =
                [self |-> chess_game, ret |-> "false"]

\* Four coordinate chars, alone or followed by a promotion letter.
WellFormed(uci_move) ==
    /\ ~Malformed(uci_move)
    /\ \/ Len(uci_move) = 4
       \/ Len(uci_move) = 5 /\ IsSome(PromotionOfChar(uci_move[5]))

SquareOfText(file, rank) ==
    make_square((CHOOSE i \in 1 .. 8 : RankDigits[i] = rank) - 1,
                (CHOOSE i \in 1 .. 8 : FileLetters[i] = file) - 1)

\* The move a well-formed string names.
RequestedMove(uci_move) ==
    ChessMove(SquareOfText(uci_move[1], uci_move[2]),
              SquareOfText(uci_move[3], uci_move[4]),
              IF Len(uci_move) = 5 THEN PromotionOfChar(uci_move[5]) ELSE None)

\* C8: a four-char string naming the source and destination of a pawn
\* promotion is rejected without change, and a string with a promotion
\* letter commits only the move with that promotion piece.
C8_PromotionLetter ==
    \A uci_move \in UciInputs, overflow_checks \in BOOLEAN :
        WellFormed(uci_move) =>
            LET out == make_engine_move(chess_game, uci_move, overflow_checks)
                requested == RequestedMove(uci_move)
                promoting == \E m \in LegalFrom(chess_game.game, requested.source) :
                                 m.dest = requested.dest /\ IsSome(m.promotion)
            IN /\ (Len(uci_move) = 4 /\ promoting) =>
                      out = [self |-> chess_game, ret |-> "false"]
               /\ (Len(uci_move) = 5 /\ out.ret = "true") =>
                      Last(out.self.move_history) = requested

\* C9: make_engine_move returns false and changes nothing for a well-formed
\* string whose move is not a legal move of the live position.
C9_RejectsIllegal ==
    \A uci_move \in UciInputs, overflow_checks \in BOOLEAN :
        (/\ WellFormed(uci_move)
         /\ RequestedMove(uci_move) \notin
                LegalFrom(chess_game.game, RequestedMove(uci_move).source)) =>
            make_engine_move(chess_game, uci_move, overflow_checks) =
                [self |-> chess_game, ret |-> "false"]

\* C10: when the side to move is not the human's colour select_square
\* returns false and changes nothing, whatever the square.
C10_SelectOffTurn ==
    chess_game.game.side_to_move # chess_game.player_color =>
        \A square \in Squares :
            select_square(chess_game, square) = [self |-> chess_game, ret |-> "false"]

\* Reached by a select_square off the human's turn, outside view mode, with
\* a square selected before.
C10_Witness ==
    /\ last.op = "select_square"
    /\ last.ret = "false"
    /\ chess_game.game.side_to_move # chess_game.player_color
    /\ ~chess_game.view_mode
    /\ IsSome(chess_game.selected_square)

\* The move is one of a pawn of the side to move to the farthest rank.
PawnReachesFarthestRank(board, m) ==
    /\ board.pieces[m.source] = PieceChar("P", board.side_to_move)
    /\ RankOf(m.dest) = IF board.side_to_move = White THEN 7 ELSE 0

\* C11: with a square selected, on the human's turn outside view mode, a
\* select_square on a destination whose move takes a pawn to the farthest
\* rank returns true and changes nothing but pending_promotion, set to
\* (source, destination), and the message; the SquareClicked handler does
\* not ask the engine for a move.
C11_PromotionPending ==
    \A square \in Squares :
        LET found == FindDest(chess_game.possible_moves, square) IN
        (/\ chess_game.game.side_to_move = chess_game.player_color
         /\ ~chess_game.view_mode
         /\ IsSome(chess_game.selected_square)
         /\ IsSome(found)
         /\ PawnReachesFarthestRank(chess_game.game, Unwrap(found))) =>
            /\ select_square(chess_game, square) =
                   [self |-> [chess_game EXCEPT
                                !.pending_promotion =
                                    Some(<<Unwrap(found).source, Unwrap(found).dest>>),
                                !.message = Text("Select promotion piece")],
                    ret |-> "true"]
            /\ \A flag \in BOOLEAN :
                   LET handled == SquareClicked(chess_game, flag, square) IN
                   /\ ~handled.asked
                   /\ handled.engine_thinking = flag
                   /\ Logs(handled.game) = Logs(chess_game)
                   /\ handled.game.thinking = chess_game.thinking

\* Reached by the select_square that opened the promotion choice.
C11_Witness ==
    /\ last.op = "select_square"
    /\ last.ret = "true"
    /\ ~last.committed
    /\ chess_game.pending_promotion = Some(<<A7, A8>>)
    /\ chess_game.message = Text("Select promotion piece")

\* C12: promote_pawn without a pending promotion returns false and changes
\* nothing; with a pending (source, dest) it commits exactly the move from
\* source to dest with the chosen piece; pending_promotion is None after it
\* in every case.
C12_Promote ==
    \A promotion_piece \in PromotionPieces :
        LET out == promote_pawn(chess_game, promotion_piece)
            pending == chess_game.pending_promotion
        IN /\ IsNone(out.self.pending_promotion)
           /\ IF IsNone(pending)
              THEN out = [self |-> chess_game, ret |-> "false"]
              ELSE /\ out.ret = "true"
                   /\ out.self.move_history =
                          Append(chess_game.move_history,
                                 ChessMove(Unwrap(pending)[1], Unwrap(pending)[2],
                                           Some(PromotionKind(promotion_piece))))
                   /\ Len(out.self.position_history) =
                          Len(chess_game.position_history) + 1

\* The fields a fresh session has, whatever the position and the colour.
Cleared(self) ==
    /\ Len(self.position_history) = 1
    /\ self.game = self.position_history[1]
    /\ self.move_history = <<>>
    /\ self.move_records = <<>>
    /\ self.selected_square = None
    /\ self.possible_moves = <<>>
    /\ self.pending_promotion = None
    /\ ~self.view_mode
    /\ self.view_move_index = 0
    /\ ~self.thinking

\* C13: after reset, and after a reset_from_fen of a string the library
\* parses, position_history holds one entry, the start position or the
\* parsed one, and the moves, records, selection, destinations, pending
\* promotion, view state and thinking flag are cleared; the load sets the
\* human's colour to the one given.
C13_ResetClears ==
    /\ Cleared(reset(chess_game))
    /\ reset(chess_game).position_history = <<Board_default>>
    /\ \A fen \in FenInputs, player_color \in Colors :
           IsSome(Board_from_str(fen)) =>
               LET loaded == reset_from_fen(chess_game, fen, player_color) IN
               /\ Cleared(loaded)
               /\ loaded.position_history = <<Unwrap(Board_from_str(fen))>>
               /\ loaded.player_color = player_color

\* Reached by a load of the promotion position for a human playing Black.
C13_Witness ==
    /\ last.op = "reset_from_fen"
    /\ chess_game.position_history = <<Unwrap(Board_from_str(PromotionFen))>>
    /\ chess_game.player_color = Black
    /\ chess_game.message = Text("Custom position loaded. Make a move to begin.")

(***************************************************************************)
(* Properties of the position editor, stated of the reachable states of    *)
(* AppSpec.                                                                *)
(***************************************************************************)
\* A position string fails validation: a king is missing, a pawn stands on
\* the first or eighth rank, or the library rejects it.
FailsValidation(fen) == IsSome(StringCheck(fen)) \/ IsNone(Board_from_str(fen))

\* C14: a load of a position string that fails validation is rejected with
\* an error and leaves the session unchanged.  reset_from_fen with a string
\* the library rejects changes no field of the session; the editor's
\* fen_error is set exactly when its fen_string fails validation; typing a
\* failing string into the editor sets fen_error and leaves the session
\* alone; and while fen_error is set SetupStartGame changes neither the
\* session, nor engine_thinking, nor the screen, and asks the engine nothing.
C14_RejectedLoad ==
    /\ \A fen \in SetupFenInputs, player_color \in Colors :
         IsNone(Board_from_str(fen)) =>
             reset_from_fen(chess_game, fen, player_color) = chess_game
    /\ IsSome(screen) =>
         /\ IsSome(Unwrap(screen).fen_error) <=> FailsValidation(Unwrap(screen).fen_string)
         /\ IsSome(Unwrap(screen).fen_error) =>
                SetupStartGame(chess_game, engine_thinking, screen)
                    = Handled(chess_game, engine_thinking, screen)
         /\ \A fen \in SetupFenInputs :
              FailsValidation(fen) =>
                  LET typed == SetupFenChanged(chess_game, engine_thinking, screen, fen) IN
                  /\ typed.game = chess_game
                  /\ typed.engine_thinking = engine_thinking
                  /\ Unwrap(typed.screen).fen_string = fen
                  /\ IsSome(Unwrap(typed.screen).fen_error)
                  /\ SetupStartGame(typed.game, typed.engine_thinking, typed.screen)
                         = typed

\* Reached by SetupStartGame pressed in the editor, with a move played in
\* the session, while fen_error was set.
C14_Witness ==
    /\ last.op = "SetupStartGame"
    /\ IsSome(screen)
    /\ IsSome(Unwrap(screen).fen_error)
    /\ Len(chess_game.move_history) > 0

(***************************************************************************)
(* Properties of ChessGame, stated of the reachable states of Spec         *)
(* (continued).                                                            *)
(***************************************************************************)
\* C15: flip_side toggles the colour the human plays between White and
\* Black, two flips restore it, and the position history, the move history,
\* the move records, the live position, the view state and the pending
\* promotion are left as they were.
C15_FlipSideFrame ==
    LET flipped == flip_side(chess_game) IN
    /\ flipped.player_color = Opp(chess_game.player_color)
    /\ flip_side(flipped).player_color = chess_game.player_color
    /\ flipped.position_history = chess_game.position_history
    /\ flipped.move_history = chess_game.move_history
    /\ flipped.move_records = chess_game.move_records
    /\ flipped.game = chess_game.game
    /\ flipped.view_mode = chess_game.view_mode
    /\ flipped.view_move_index = chess_game.view_move_index
    /\ flipped.pending_promotion = chess_game.pending_promotion

\* Reached by flip_side called in view mode with a move played.
C15_Witness ==
    /\ last.op = "flip_side"
    /\ Len(chess_game.move_history) > 0
    /\ chess_game.view_mode

(***************************************************************************)
(* Properties of the engine bridge, stated of the reachable states of      *)
(* EngineSpec.                                                             *)
(***************************************************************************)
\* C16: try_receive_move never blocks.  In every state, whether the reader
\* thread has not been started, is running or has terminated, the call can
\* be made and returns at once: the oldest move of the channel, which it
\* takes out of the channel, when there is one, and nothing when the channel
\* is empty, which it leaves empty.
C16_TryReceiveNeverBlocks ==
    /\ world.reader \in {"not_started", "running", "terminated"}
    /\ ENABLED TryReceiveMove
    /\ chess_engine.move_channel = <<>> =>
         try_receive_move(chess_engine) = [self |-> chess_engine, ret |-> None]
    /\ chess_engine.move_channel # <<>> =>
         /\ try_receive_move(chess_engine).ret = Some(chess_engine.move_channel[1])
         /\ <<Unwrap(try_receive_move(chess_engine).ret)>>
              \o try_receive_move(chess_engine).self.move_channel
              = chess_engine.move_channel

\* Reached by try_receive_move returning nothing after the reader thread has
\* terminated, a move having been taken before while a second one waited.
C16_Witness ==
    /\ last.op = "try_receive_move"
    /\ last.ret = None
    /\ world.reader = "terminated"
    /\ Len(taken) = 2

\* A line begins with the marker token: its first characters are "bestmove"
\* and the token ends there, at a blank or at the end of the line.
BeginsWithMarkerToken(line) ==
    /\ starts_with(line, Bestmove)
    /\ Len(line) = Len(Bestmove) \/ line[Len(Bestmove) + 1] = " "

RECURSIVE SecondTokens(_)
\* The second whitespace-delimited token of each of the lines that begin
\* with the marker token, in the order of the lines.
SecondTokens(lines) ==
    IF lines = <<>> THEN <<>>
    ELSE (IF BeginsWithMarkerToken(Head(lines)) /\ Len(split_whitespace(Head(lines))) >= 2
          THEN <<split_whitespace(Head(lines))[2]>> ELSE <<>>)
         \o SecondTokens(Tail(lines))

\* The lines the reader thread has read: those printed and no longer in the
\* pipe.
LinesRead == SubSeq(emitted, 1, Len(emitted) - Len(world.stdout))

RECURSIVE SecondTokensOfPrefixed(_)
\* The second whitespace-delimited token of each of the lines whose text
\* starts with the characters "bestmove" and that have two tokens or more, in
\* the order of the lines.
SecondTokensOfPrefixed(lines) ==
    IF lines = <<>> THEN <<>>
    ELSE (IF starts_with(Head(lines), Bestmove) /\ Len(split_whitespace(Head(lines))) >= 2
          THEN <<split_whitespace(Head(lines))[2]>> ELSE <<>>)
         \o SecondTokensOfPrefixed(Tail(lines))

C18_NotFoundAndNotReady ==
    /\ IsNone(chess_engine.process) =>
         \A spawn_ok \in BOOLEAN, child_reads \in BOOLEAN,
            skill_level \in SkillLevelInputs, think_time \in ThinkTimeInputs :
              ChessEngine_start(chess_engine, world, FALSE, spawn_ok, child_reads,
                                skill_level, think_time)
                = [self |-> chess_engine, world |-> world,
                   ret |-> "Engine not found at path"]
    /\ world.child # "running" =>
         \A fen \in FenInputs :
              get_move(chess_engine, world, fen)
                = [self |-> chess_engine, world |-> world,
                   ret |-> "Engine process not available"]

(***************************************************************************)
(* Properties of the notation, stated of the reachable states of           *)
(* NotationSpec.                                                           *)
(***************************************************************************)
\* The squares of the other pieces of the mover's kind and colour that can
\* legally reach the destination of the move.
Candidates(board, m) ==
    {s \in Squares \ {m.source} :
        /\ board.pieces[s] = board.pieces[m.source]
        /\ \E other \in LegalFrom(board, s) : other.dest = m.dest}

\* The disambiguation the set of candidates calls for: nothing for pawns,
\* for kings and for no candidate; the file letter if no candidate shares
\* the mover's file; else the rank digit if none shares its rank; else both.
DisambiguationFor(board, m) ==
    LET candidates == Candidates(board, m) IN
    IF Upper[board.pieces[m.source]] \in {"P", "K"} \/ candidates = {} THEN <<>>
    ELSE IF \A s \in candidates : FileOf(s) # FileOf(m.source)
         THEN <<FileLetters[FileOf(m.source) + 1]>>
    ELSE IF \A s \in candidates : RankOf(s) # RankOf(m.source)
         THEN <<RankDigits[RankOf(m.source) + 1]>>
    ELSE <<FileLetters[FileOf(m.source) + 1], RankDigits[RankOf(m.source) + 1]>>

IsCastling(board, m) ==
    /\ Upper[board.pieces[m.source]] = "K"
    /\ FileOf(m.source) - FileOf(m.dest) \in {2, -2}

SuffixFor(board, m) ==
    LET after == make_move_new(board, m) IN
    IF ~InCheck(after.pieces, after.side_to_move) THEN <<>>
    ELSE IF LegalMoves(after) = {} THEN <<"#">>
    ELSE <<"+">>

\* The text ends with the suffix and carries no other check mark.
EndsWithSuffix(text, suffix) ==
    /\ text # <<>>
    /\ suffix # <<>> => text[Len(text)] = suffix[1]
    /\ \A i \in 1 .. Len(text) :
         text[i] \in {"+", "#"} => (suffix # <<>> /\ i = Len(text))

\* C20: the notation of a move ends with "#" when the move leaves the
\* opponent in check with no legal reply, with "+" when it leaves the
\* opponent in check with at least one reply, and with neither otherwise;
\* the full notation and the display notation carry the same suffix.
C20_CheckSuffix ==
    \A m \in LegalMoves(chess_game.game) :
        LET details == move_to_details(m, chess_game.game) IN
        /\ EndsWithSuffix(details.notation, SuffixFor(chess_game.game, m))
        /\ EndsWithSuffix(details.display_text, SuffixFor(chess_game.game, m))


\* The text with a trailing check mark taken off.
WithoutCheckMark(text) ==
    IF text # <<>> /\ text[Len(text)] \in {"+", "#"}
    THEN SubSeq(text, 1, Len(text) - 1)
    ELSE text

\* C21: a king's move from the home file (index 4) to file index 6 is
\* written "O-O" and to file index 2 "O-O-O", with is_capture false and
\* neither disambiguation nor capture marker; every other king's move is
\* written with the piece letter "K", the capture marker if it takes, and
\* the destination, with no disambiguation between them.
C21_CastlingNotation ==
    \A m \in LegalMoves(chess_game.game) :
        LET board == chess_game.game
            details == move_to_details(m, board)
        IN Upper[board.pieces[m.source]] = "K" =>
             IF FileOf(m.source) = 4 /\ FileOf(m.dest) = 6
             THEN /\ details.notation = <<"O-O">>
                  /\ details.display_text = <<"O-O">>
                  /\ ~details.is_capture
             ELSE IF FileOf(m.source) = 4 /\ FileOf(m.dest) = 2
             THEN /\ details.notation = <<"O-O-O">>
                  /\ details.display_text = <<"O-O-O">>
                  /\ ~details.is_capture
             ELSE /\ WithoutCheckMark(details.notation)
                       = <<"K">> \o (IF details.is_capture THEN <<"x">> ELSE <<>>)
                                 \o SquareText(m.dest)
                  /\ details.is_capture = (board.pieces[m.dest] # Empty)

\* Reached when the king has gone from e1 to g1 and the move was recorded
\* as "O-O".
C21_Witness ==
    /\ last.committed
    /\ chess_game.move_history
         = <<ChessMove(make_square(0, 4), make_square(0, 6), None)>>
    /\ Unwrap(chess_game.move_records[1].white_move).notation = <<"O-O">>
    /\ ~Unwrap(chess_game.move_records[1].white_move).is_capture


(***************************************************************************)
(* Properties of the commit and of the promotion choice, stated of the     *)
(* reachable states of Spec.                                               *)
(***************************************************************************)
\* C22: in every reachable state, a pending promotion implies that no
\* square is selected and that no move has been committed for it: the
\* history holds no promotion from its source to its destination made since
\* the position the choice was opened in.
C22_PendingPromotion ==
    IsSome(chess_game.pending_promotion) =>
        /\ IsNone(chess_game.selected_square)
        /\ Len(chess_game.move_history) >= 1 =>
             ~(/\ Last(chess_game.move_history).source
                    = Unwrap(chess_game.pending_promotion)[1]
               /\ Last(chess_game.move_history).dest
                    = Unwrap(chess_game.pending_promotion)[2]
               /\ IsSome(Last(chess_game.move_history).promotion))


\* C23: every commit, by select_square, promote_pawn or make_engine_move,
\* sets view_move_index to the new last index of position_history and
\* view_mode to false, so that the position shown after it is the one just
\* reached, also when the move arrives in view mode.
C23_CommitLeavesViewMode ==
    \A out \in CommitOutcomes(chess_game) :
        /\ out.self.view_move_index = Len(out.self.position_history) - 1
        /\ ~out.self.view_mode
        /\ current_position(out.self) = Last(out.self.position_history)

\* C24: every commit, by select_square, promote_pawn or make_engine_move,
\* leaves no square selected, no legal destinations and no pending
\* promotion.
C24_CommitClearsSelection ==
    \A out \in CommitOutcomes(chess_game) :
        /\ out.self.selected_square = None
        /\ out.self.possible_moves = <<>>
        /\ out.self.pending_promotion = None


(***************************************************************************)
(* Properties of move_records, stated of the reachable states of Spec.     *)
(***************************************************************************)
\* The number of half-moves the records hold.
HalfMoves(move_records) ==
    Cardinality({i \in 1 .. Len(move_records) : IsSome(move_records[i].white_move)})
    + Cardinality({i \in 1 .. Len(move_records) : IsSome(move_records[i].black_move)})

\* The records of the first n plies of a game White began: the records of
\* the pairs before, and for an odd n the record of ply n without its black
\* half.
FirstPlies(move_records, n) ==
    [i \in 1 .. (n + 1) \div 2 |->
        IF 2 * i > n THEN [move_records[i] EXCEPT !.black_move = None]
        ELSE move_records[i]]

\* C29: after an undo, move_records matches the remaining plies: a record
\* is removed when its white_move was undone and only its black_move is
\* cleared when just the black half was undone, so the records left are
\* those of the plies still in move_history; for either colour of the human
\* and whether or not the engine is thinking.
C29_UndoTrimsRecords ==
    (/\ HalfMoves(chess_game.move_records) = Len(chess_game.move_history)
     /\ chess_game.position_history[1].side_to_move = White) =>
        LET undone == undo_move_pair(chess_game) IN
        /\ undone.move_records
             = FirstPlies(chess_game.move_records, Len(undone.move_history))
        /\ HalfMoves(undone.move_records) = Len(undone.move_history)


\* C30: in every reachable state the half-moves stored in move_records
\* (its white_move and black_move entries) are as many as the moves of
\* move_history, so that a record exists for ply n iff the history holds n
\* moves or more; also in a game loaded from a position with Black to move.
C30_RecordsMatchLog ==
    HalfMoves(chess_game.move_records) = Len(chess_game.move_history)


(***************************************************************************)
(* Properties of the application's handlers, stated of the reachable       *)
(* states of AppSpec.                                                      *)
(***************************************************************************)
\* The handler committed a human move that does not end the game.
CommittedOpenMove(game, handled) ==
    /\ Len(handled.game.move_history) > Len(game.move_history)
    /\ IsNone(game_result(handled.game))

\* C25: a SquareClicked or PromotePawn that commits a human move which does
\* not end the game sets the thinking flags and submits the position to the
\* engine, whatever was done before: no such move is left without a
\* request.
C25_HumanMoveAsksEngine ==
    /\ \A square \in SquareInputs :
         LET handled == SquareClicked(chess_game, engine_thinking, square) IN
         CommittedOpenMove(chess_game, handled) =>
             handled.asked /\ handled.engine_thinking /\ handled.game.thinking
    /\ \A promotion_piece \in PromotionPieces :
         LET handled == PromotePawnChosen(chess_game, engine_thinking, promotion_piece) IN
         CommittedOpenMove(chess_game, handled) =>
             handled.asked /\ handled.engine_thinking /\ handled.game.thinking

\* C27: at any time at most one search is outstanding at the engine (a
\* position sent with "go" and not yet answered) and at most one unconsumed
\* move sits in the channel, over all sequences of SquareClicked, UndoMove,
\* FlipSide, ResetGame, SetupStartGame and engine replies.
C27_OneSearchOutstanding ==
    /\ Searches(world.stdin) - Len(emitted) <= 1
    /\ Len(chess_engine.move_channel) <= 1

\* C26: a reply taken from the channel while the game's thinking flag is
\* false (its request cancelled by an undo or a reset) is discarded: the
\* EngineMoved message that carries it leaves position_history and
\* move_history as they are.
C26_StaleReplyDiscarded ==
    \A overflow_checks \in BOOLEAN :
        (commands.moved # <<>> /\ ~Head(commands.moved).thinking) =>
            Logs(EngineMoved(chess_game, engine_thinking, screen,
                             Head(commands.moved).best_move, overflow_checks).game)
              = Logs(chess_game)

\* C28: the lock around the game is never held across a blocking call: no
\* step that writes to the engine's input pipe (the lines of start, the
\* position and go lines of get_move) is taken while the lock around the
\* game is held.
C28_NoWriteUnderSessionLock ==
    [][world'.stdin # world.stdin => session_lock = "free"]_vars

\* C31: in every reachable state each record of move_records has move_num
\* equal to its place in the sequence counted from 1 (1 + its index), and a
\* record's black_move is set only if its white_move is set.
C31_RecordsNumbered ==
    \A i \in 1 .. Len(chess_game.move_records) :
        /\ chess_game.move_records[i].move_num = i
        /\ IsSome(chess_game.move_records[i].black_move)
             => IsSome(chess_game.move_records[i].white_move)

\* A game of four plies: the second record holds both of its moves.
C31_Witness ==
    /\ Len(chess_game.move_records) = 2
    /\ IsSome(chess_game.move_records[2].black_move)
    /\ last.op = "make_engine_move"

\* C32: in every reachable state view_move_index is a valid index into
\* position_history (view_move_index < position_history.len()), after any
\* sequence of commits, undos, resets, loads, view_move_at and set_view_mode
\* calls.
C32_ViewIndexValid ==
    chess_game.view_move_index < Len(chess_game.position_history)

\* An undo of two plies has shortened position_history below the index that
\* was viewed before it.
C32_Witness ==
    /\ last.op = "undo_move_pair"
    /\ Len(chess_game.position_history) = 1
    /\ chess_game.view_mode

\* C33: in every reachable state current_position() is
\* position_history[view_move_index] when view_mode is true and the last
\* entry of position_history when it is false; the live game position is
\* always the last entry of position_history.
C33_CurrentPosition ==
    /\ chess_game.game = Last(chess_game.position_history)
    /\ current_position(chess_game)
         = IF chess_game.view_mode
           THEN chess_game.position_history[chess_game.view_move_index + 1]
           ELSE Last(chess_game.position_history)

\* An undo has taken moves back, outside view mode, in a game that had moves.
C33_Witness ==
    /\ last.op = "undo_move_pair"
    /\ last.after_commit
    /\ ~chess_game.view_mode
    /\ Len(chess_game.position_history) = 1

\* C34: view_move_at(index) with index >= position_history.len() changes no
\* field; with a valid index it sets view_mode true and view_move_index to
\* index, clears selected_square and possible_moves, and changes neither
\* position_history, move_history nor move_records.
C34_ViewMoveAt ==
    \A index \in ViewIndexInputs :
        LET viewed == view_move_at(chess_game, index) IN
        IF index >= Len(chess_game.position_history)
        THEN viewed = chess_game
        ELSE /\ viewed.view_mode
             /\ viewed.view_move_index = index
             /\ IsNone(viewed.selected_square)
             /\ viewed.possible_moves = <<>>
             /\ viewed.position_history = chess_game.position_history
             /\ viewed.move_history = chess_game.move_history
             /\ viewed.move_records = chess_game.move_records

\* view_move_at has taken an index in range of a game of two plies; from
\* this state indexes in range and out of range are both among the inputs.
C34_Witness ==
    /\ last.op = "view_move_at"
    /\ chess_game.view_mode
    /\ chess_game.view_move_index = 1
    /\ Len(chess_game.position_history) = 3

WithoutPieceLetter(notation) ==
    IF notation # <<>> /\ notation[1] \in {"N", "B", "R", "Q", "K"}
    THEN Tail(notation)
    ELSE notation

\* C36 as stated: the display notation of every move is its full notation
\* with only the piece-letter prefix removed, the source file of a pawn's
\* capture included.
C36_DisplayIsNotationWithoutLetter ==
    \A m \in LegalMoves(chess_game.game) :
        LET details == move_to_details(m, chess_game.game) IN
        details.display_text = WithoutPieceLetter(details.notation)

\* C36: the display notation of every move is its full notation with the
\* piece-letter prefix removed and, for a capture by a pawn, with the source
\* file removed too (exd5 is displayed as xd5); disambiguation, destination,
\* promotion suffix and check suffix are the same.
C36_DisplayNotation ==
    \A m \in LegalMoves(chess_game.game) :
        LET details == move_to_details(m, chess_game.game) IN
        IF details.piece = "P" /\ details.is_capture
        THEN /\ details.notation[1] = FileChar(m.source)
             /\ details.display_text = Tail(details.notation)
        ELSE details.display_text = WithoutPieceLetter(details.notation)

\* Reached when the pawn on e4 has taken on d5 and the move was recorded as
\* exd5, displayed as xd5.
C36_Witness ==
    /\ last.committed
    /\ chess_game.move_records # <<>>
    /\ Unwrap(chess_game.move_records[1].white_move).notation
         = <<"e", "x", "d", "5">>
    /\ Unwrap(chess_game.move_records[1].white_move).display_text
         = <<"x", "d", "5">>

\* C37: a move is committed through select_square or promote_pawn only when
\* the side to move in the live position is the human's colour and view_mode
\* is false, also when flip_side, undo_move_pair, view_move_at or an engine
\* move comes between the opening of the promotion choice and promote_pawn.
C37_HumanCommitsOnOwnTurn ==
    LET Allowed == /\ chess_game.game.side_to_move = chess_game.player_color
                   /\ ~chess_game.view_mode
        Commits(out) == Len(out.self.move_history) > Len(chess_game.move_history)
    IN /\ \A square \in SquareInputs :
            Commits(select_square(chess_game, square)) => Allowed
       /\ \A promotion_piece \in PromotionPieces :
            Commits(promote_pawn(chess_game, promotion_piece)) => Allowed

\* C38: the application's polling flag (ChessApp.engine_thinking) is never
\* false while the reply to a position sent to the engine is still to come
\* (not yet taken from the channel), also after an earlier stale or rejected
\* reply, so that under fair scheduling of Tick and CheckEngineMove every
\* reply the engine emits is taken from the channel and passed to
\* make_engine_move.
C38_PollingWhileReplyToCome ==
    Searches(world.stdin) > Len(taken) => engine_thinking

\* C39: whenever selected_square is Some, every move of possible_moves has
\* that square as its source and is legal in the live position, and whenever
\* selected_square is None possible_moves is empty; also after an engine
\* move or a flip_side that comes while a square is selected.
C39_PossibleMovesOfSelection ==
    IF IsSome(chess_game.selected_square)
    THEN \A i \in 1 .. Len(chess_game.possible_moves) :
            /\ chess_game.possible_moves[i].source = Unwrap(chess_game.selected_square)
            /\ chess_game.possible_moves[i]
                 \in LegalFrom(chess_game.game, Unwrap(chess_game.selected_square))
    ELSE chess_game.possible_moves = <<>>

\* C40: every thread that holds both locks took the lock around the game
\* before the lock around the engine, no thread asks for the lock around the
\* game while it holds the lock around the engine, and so no interleaving of
\* the update handler, the startup command and the commands that ask for a
\* move reaches a deadlock: whenever a lock is held, a holder of a lock can
\* take its next step.
C40_LockOrder ==
    /\ \A holder \in {"first_move", "get_move"} :
          engine_lock = holder => session_lock = holder
    /\ engine_lock = "startup" => session_lock # "startup"
    /\ (session_lock # "free" \/ engine_lock # "free")
          => ENABLED (StartupStart \/ CommandLockSecond \/ CommandGetMove)

\* A command holds the lock around the game and waits for the lock around
\* the engine, which the startup command holds while it starts the engine.
C40_Witness ==
    /\ session_lock = "get_move"
    /\ engine_lock = "startup"

====
